---- MODULE Spec2Model ----
(***************************************************************************)
(* Model of the GhostCAT object graph (libghostcat.c), of the driver       *)
(* interface as implemented by the test driver and the marsgaming driver,  *)
(* and of the daemon's deferred commit (ghostcatd-device.c, ghostcatd.c).  *)
(* One device is modelled; its profiles, resolutions, buttons and LEDs     *)
(* are addressed by index, as the lists of the source are built in index   *)
(* order by ghostcat_device_init_profiles.                                 *)
(***************************************************************************)
EXTENDS Integers, Sequences, FiniteSets, TLC

(* ---------------- bounds of the model ---------------- *)
NumProfiles == 2
NumResolutions == 2
NumButtons == 1
NumLeds == 1
\* number of library calls / reactor dispatches explored by the budgeted
\* specifications
MaxCalls == 3

Profiles == 0 .. (NumProfiles - 1)
Resolutions == 0 .. (NumResolutions - 1)
Buttons == 0 .. (NumButtons - 1)
Leds == 0 .. (NumLeds - 1)

(* ---------------- program constants ---------------- *)
GHOSTCAT_SUCCESS == 0
GHOSTCAT_ERROR_DEVICE == -1000
GHOSTCAT_ERROR_CAPABILITY == -1001
GHOSTCAT_ERROR_VALUE == -1002
GHOSTCAT_ERROR_IMPLEMENTATION == -1004

\* a NULL pointer (profile->name, drv_data)
NULL == "NULL"

(* ---------------- input domains ---------------- *)
\* driver ids: the two drivers of the source, and any other driver that
\* implements struct ghostcat_driver (with or without set_active_profile)
Drivers == {"test_driver", "marsgaming", "other", "other_noactive"}
RateInputs == {500, 1000}
AngleInputs == {0, 1}
DebounceInputs == {4, 8}
NameInputs == {"a", "b"}
DpiInputs == {0, 400, 800}
ButtonInputs == {0, 1}
LedModeInputs == {"off", "cycle"}
ColorInputs == {0, 255}
DurationInputs == {0, 100}
BrightnessInputs == {0, 255}
\* return values of a driver callback: 0 or an errno
CallbackRcs == {0, -5}

VARIABLES
    prof,       \* prof[p]: struct ghostcat_profile of index p
    res,        \* res[<<p, r>>]: struct ghostcat_resolution r of profile p
    btn,        \* btn[<<p, b>>]: struct ghostcat_button b of profile p
    led,        \* led[<<p, l>>]: struct ghostcat_led l of profile p
    driver,     \* device->driver (its id)
    hwProfile,  \* the profile the hardware currently uses (marsgaming)
    op,         \* the last call made: [name, p, i, a, b]
    ret,        \* its return value
    drvCalls,   \* driver callbacks invoked by the last ghostcat_device_commit
    requested,  \* history: target of the last successful set_active not yet committed
    applied,    \* history: value of requested when the last commit started
    probed,     \* history: probed[<<p, r>>] = <<dpi_x, dpi_y>> as the probe left them
    ncalls,     \* number of calls made / reactor callbacks dispatched so far
    linked,     \* ghostcatd_device_linked: the device is in the registry
    refcount,   \* struct ghostcatd_device refcount (0: freed)
    lib_refcount, \* struct ghostcat_device refcount (0: destroyed)
    drv_data,   \* device->drv_data is not NULL (the driver's data is alive)
    tasks,      \* deferred commit tasks not run yet (request numbers)
    replies,    \* replies sent to Commit calls: [value, turn]
    commits,    \* commits run by tasks: [req, turn, linked, removed, rc, resync, signals]
    aborted,    \* an assert() failed or freed memory was used
    bus,        \* the last bus request or reactor event handled: [name, p, value, rc, signals]
    macro,      \* button->action of one button: [set, events, encoded]
    keycode,  \* what the last ghostcat_action_keycode_from_macro returned: [called, rc, key, modifiers]
    refs,     \* the library's reference counts: [count, held, destroyed, aborted]
    reg,      \* the daemon's device registry: [root, left, right, n_devices, dev, tasks, event, aborted]
    probe,    \* one device going through probe: [phase, driver, driver_set, probe_rc, pf, rs, rates, removes, drv_data, aborted]
    hw,       \* what the last ghostcat_device_commit sent to the mouse, in order
    timers      \* the reactor's poll timer sources and what the last tick polled

libvars == <<prof, res, btn, led, driver, hwProfile, op, ret, drvCalls,
             requested, applied, probed>>
daemonvars == <<linked, refcount, lib_refcount, drv_data, tasks, replies,
                commits, aborted>>
auxvars == <<bus, macro, keycode, refs, reg, probe, hw, timers>>
vars == <<prof, res, btn, led, driver, hwProfile, op, ret, drvCalls,
          requested, applied, probed, ncalls, linked, refcount, lib_refcount,
          drv_data, tasks, replies, commits, aborted, bus, macro, keycode,
          refs,
          reg,
          probe,
          hw,
          timers>>

\* "no such index"
NoOne == 0 - 1
Call(name, p, i, a, b) == [name |-> name, p |-> p, i |-> i, a |-> a, b |-> b]
B2N(b) == IF b THEN 1 ELSE 0

(* ---------------- construction and probe ---------------- *)

\* ghostcat_create_profile: defaults of a freshly created profile
ghostcat_create_profile ==
    [is_active |-> FALSE, is_active_dirty |-> FALSE, is_enabled |-> TRUE,
     dirty |-> FALSE, rate_dirty |-> FALSE, angle_snapping_dirty |-> FALSE,
     debounce_dirty |-> FALSE, hz |-> 0, angle_snapping |-> -1,
     debounce |-> -1, name |-> NULL, cap_disable |-> FALSE]

\* ghostcat_create_resolution: zalloc'ed resolution
ghostcat_create_resolution ==
    [dpi_x |-> 0, dpi_y |-> 0, dpis |-> {}, is_active |-> FALSE,
     is_default |-> FALSE, is_disabled |-> FALSE,
     is_dpi_shift_target |-> FALSE, dirty |-> FALSE,
     cap_separate_xy |-> FALSE, cap_disable |-> FALSE]

\* button->action.macro is NULL
NoMacro == [alloc |-> FALSE, events |-> <<>>]

\* ghostcat_create_button: zalloc'ed button
ghostcat_create_button ==
    [type |-> "none", value |-> 0, macro |-> NoMacro, action_caps |-> {},
     dirty |-> FALSE]

\* ghostcat_create_led: zalloc'ed LED
ghostcat_create_led ==
    [mode |-> "off", modes |-> {}, color |-> 0, ms |-> 0, brightness |-> 0,
     dirty |-> FALSE]

\* ghostcat_sanity_check_device: what the check after probe requires of the
\* profiles (1..16 profiles, exactly one active, lists not empty)
ghostcat_sanity_check_device(pf, rs) ==
    /\ NumProfiles >= 1 /\ NumProfiles <= 16
    /\ Cardinality({p \in Profiles : pf[p].is_active}) = 1
    /\ NumResolutions <= 16
    /\ \A x \in DOMAIN rs : rs[x].dpis # {}

\* ghostcat_resolution_set_dpi_list_from_range: the DPI values from min to
\* max in steps of 50 / 100 / 200 / 500, at most 300 of them
RECURSIVE dpi_list_from_range(_, _, _)
dpi_list_from_range(dpi, max, n) ==
    IF n >= 300 \/ dpi > max THEN {}
    ELSE LET stepsize == IF dpi < 1000 THEN 50
                         ELSE IF dpi < 2600 THEN 100
                         ELSE IF dpi < 5000 THEN 200 ELSE 500
         IN {dpi} \cup dpi_list_from_range(dpi + stepsize, max, n + 1)

\* A test device description (struct ghostcat_test_device): per profile the
\* flags active / disabled and the capability, per resolution the flags
\* active / dflt / disabled and the capability to be disabled.
TestResolution(active, dflt, disabled, cap_disable) ==
    [xres |-> 400, yres |-> 400, active |-> active, dflt |-> dflt,
     disabled |-> disabled, cap_disable |-> cap_disable, cap_xy |-> TRUE]

\* test_read_profile, the resolution loop: copies the description, then
\* makes resolution 0 active / default when the description names none
test_read_resolutions(rd) ==
    LET copied == [r \in Resolutions |->
            [ghostcat_create_resolution EXCEPT
                !.dpi_x = rd[r].xres, !.dpi_y = rd[r].yres,
                !.dpis = dpi_list_from_range(400, 800, 0),
                !.is_active = rd[r].active, !.is_default = rd[r].dflt,
                !.is_disabled = rd[r].disabled,
                !.cap_separate_xy = rd[r].cap_xy,
                !.cap_disable = rd[r].cap_disable]]
        active_set == \E r \in Resolutions : rd[r].active
        default_set == \E r \in Resolutions : rd[r].dflt
    IN [r \in Resolutions |->
            IF r = 0
            THEN [copied[r] EXCEPT
                    !.is_active = IF active_set THEN @ ELSE TRUE,
                    !.is_default = IF default_set THEN @ ELSE TRUE]
            ELSE copied[r]]

\* test_read_profile, the profile part: active and enabled are copied
\* independently of each other from the description
test_read_profile(active, disabled, cap_disable) ==
    [ghostcat_create_profile EXCEPT
        !.hz = 1000, !.is_active = active, !.is_enabled = ~disabled,
        !.name = "a", !.cap_disable = cap_disable]

\* test_read_button: every action type is enabled
test_read_button ==
    [ghostcat_create_button EXCEPT
        !.type = "button", !.value = 0,
        !.action_caps = {"none", "button", "key", "special", "macro"}]

\* test_read_led
test_read_led ==
    [ghostcat_create_led EXCEPT !.modes = {"on", "cycle", "breathing", "off"}]

\* marsgaming_probe_profiles: the active profile is the one the hardware
\* reports; profiles cannot be disabled and have no name
marsgaming_probe_profile(p, current_profile) ==
    [ghostcat_create_profile EXCEPT
        !.hz = 1000, !.is_active = (p = current_profile)]

\* marsgaming_probe_profile_resolutions
marsgaming_probe_resolution(r, current_resolution) ==
    [ghostcat_create_resolution EXCEPT
        !.dpi_x = 400, !.dpi_y = 400,
        !.dpis = dpi_list_from_range(400, 800, 0),
        !.is_active = (r = current_resolution),
        !.cap_separate_xy = TRUE]

\* marsgaming_probe_button
marsgaming_probe_button ==
    [ghostcat_create_button EXCEPT
        !.type = "button", !.action_caps = {"button", "special", "macro"}]

\* marsgaming_probe_profile_leds
marsgaming_probe_led ==
    [ghostcat_create_led EXCEPT
        !.mode = "on", !.modes = {"off", "on", "breathing"},
        !.brightness = 255]

\* The state after a probe that ghostcat_try_driver accepts. desc gives,
\* for drivers other than marsgaming, the device description: desc.active
\* (a profile), desc.disabled and desc.can_disable (sets of profiles),
\* and desc.res[p][r] (TestResolution records).
ProbedState(drv, desc) ==
    /\ driver = drv
    /\ hwProfile = desc.active
    /\ prof = [p \in Profiles |->
            IF drv = "marsgaming"
            THEN marsgaming_probe_profile(p, desc.active)
            ELSE test_read_profile(p = desc.active, p \in desc.disabled,
                                   p \in desc.can_disable)]
    /\ res = [x \in Profiles \X Resolutions |->
            IF drv = "marsgaming"
            THEN marsgaming_probe_resolution(x[2], 0)
            ELSE test_read_resolutions(desc.res[x[1]])[x[2]]]
    /\ btn = [x \in Profiles \X Buttons |->
            IF drv = "marsgaming" THEN marsgaming_probe_button
            ELSE test_read_button]
    /\ led = [x \in Profiles \X Leds |->
            IF drv = "marsgaming" THEN marsgaming_probe_led
            ELSE test_read_led]
    /\ ghostcat_sanity_check_device(prof, res)
    /\ op = Call("probe", NoOne, NoOne, 0, 0)
    /\ ret = 0
    /\ drvCalls = <<>>
    /\ requested = NoOne
    /\ applied = NoOne
    /\ probed = [x \in DOMAIN res |-> <<res[x].dpi_x, res[x].dpi_y>>]

\* the plain description: every profile enabled and able to be disabled,
\* resolution 0 active and default, nothing disabled
PlainResolutions ==
    [r \in Resolutions |-> TestResolution(r = 0, r = 0, FALSE, TRUE)]
PlainDevice(active) ==
    [active |-> active, disabled |-> {}, can_disable |-> Profiles,
     res |-> [p \in Profiles |-> PlainResolutions]]

(* ---------------- profile setters ---------------- *)

Returned(call, rc) == op' = call /\ ret' = rc
History == UNCHANGED <<requested, applied, probed>>
Device == UNCHANGED <<driver, hwProfile, drvCalls>>

\* a set_enabled that lets the active profile be disabled
ghostcat_profile_set_enabled_unchecked(p, enabled) ==
    LET call == Call("profile_set_enabled", p, NoOne, B2N(enabled), 0) IN
    /\ IF ~prof[p].cap_disable
       THEN Returned(call, GHOSTCAT_ERROR_CAPABILITY) /\ UNCHANGED prof
       ELSE /\ prof' = [prof EXCEPT ![p].is_enabled = enabled,
                                    ![p].dirty = TRUE]
            /\ Returned(call, GHOSTCAT_SUCCESS)
    /\ UNCHANGED <<res, btn, led>> /\ Device /\ History

\* ghostcat_profile_set_enabled
ghostcat_profile_set_enabled(p, enabled) ==
    LET call == Call("profile_set_enabled", p, NoOne, B2N(enabled), 0) IN
    /\ IF ~prof[p].cap_disable
       THEN Returned(call, GHOSTCAT_ERROR_CAPABILITY) /\ UNCHANGED prof
       ELSE IF prof[p].is_active /\ ~enabled
       THEN Returned(call, GHOSTCAT_ERROR_VALUE) /\ UNCHANGED prof
       ELSE /\ prof' = [prof EXCEPT ![p].is_enabled = enabled,
                                    ![p].dirty = TRUE]
            /\ Returned(call, GHOSTCAT_SUCCESS)
    /\ UNCHANGED <<res, btn, led>> /\ Device /\ History

\* a set_active that leaves the previously active profile active
ghostcat_profile_set_active_keep(p) ==
    LET call == Call("profile_set_active", p, NoOne, 0, 0) IN
    /\ IF ~prof[p].is_enabled
       THEN Returned(call, GHOSTCAT_ERROR_VALUE) /\ UNCHANGED <<prof, requested>>
       ELSE IF NumProfiles = 1
       THEN Returned(call, GHOSTCAT_SUCCESS) /\ UNCHANGED <<prof, requested>>
       ELSE /\ prof' = [prof EXCEPT ![p].is_active = TRUE,
                                    ![p].is_active_dirty = TRUE,
                                    ![p].dirty = TRUE]
            /\ requested' = p
            /\ Returned(call, GHOSTCAT_SUCCESS)
    /\ UNCHANGED <<res, btn, led, applied, probed>> /\ Device

\* ghostcat_profile_set_active
ghostcat_profile_set_active(p) ==
    LET call == Call("profile_set_active", p, NoOne, 0, 0) IN
    /\ IF ~prof[p].is_enabled
       THEN Returned(call, GHOSTCAT_ERROR_VALUE) /\ UNCHANGED <<prof, requested>>
       ELSE IF NumProfiles = 1
       THEN Returned(call, GHOSTCAT_SUCCESS) /\ UNCHANGED <<prof, requested>>
       ELSE /\ prof' = [q \in Profiles |->
                    IF q = p
                    THEN [prof[q] EXCEPT !.is_active = TRUE,
                                         !.is_active_dirty = TRUE,
                                         !.dirty = TRUE]
                    ELSE IF prof[q].is_active
                    THEN [prof[q] EXCEPT !.is_active = FALSE,
                                         !.is_active_dirty = TRUE,
                                         !.dirty = TRUE]
                    ELSE prof[q]]
            /\ requested' = p
            /\ Returned(call, GHOSTCAT_SUCCESS)
    /\ UNCHANGED <<res, btn, led, applied, probed>> /\ Device

\* ghostcat_profile_set_report_rate
ghostcat_profile_set_report_rate(p, hz) ==
    /\ prof' = IF prof[p].hz # hz
               THEN [prof EXCEPT ![p].hz = hz, ![p].dirty = TRUE,
                                 ![p].rate_dirty = TRUE]
               ELSE prof
    /\ Returned(Call("profile_set_report_rate", p, NoOne, hz, 0), GHOSTCAT_SUCCESS)
    /\ UNCHANGED <<res, btn, led>> /\ Device /\ History

\* ghostcat_profile_set_angle_snapping
ghostcat_profile_set_angle_snapping(p, value) ==
    /\ prof' = IF prof[p].angle_snapping # value
               THEN [prof EXCEPT ![p].angle_snapping = value,
                                 ![p].dirty = TRUE,
                                 ![p].angle_snapping_dirty = TRUE]
               ELSE prof
    /\ Returned(Call("profile_set_angle_snapping", p, NoOne, value, 0),
                GHOSTCAT_SUCCESS)
    /\ UNCHANGED <<res, btn, led>> /\ Device /\ History

\* ghostcat_profile_set_debounce
ghostcat_profile_set_debounce(p, value) ==
    /\ prof' = IF prof[p].debounce # value
               THEN [prof EXCEPT ![p].debounce = value, ![p].dirty = TRUE,
                                 ![p].debounce_dirty = TRUE]
               ELSE prof
    /\ Returned(Call("profile_set_debounce", p, NoOne, value, 0),
                GHOSTCAT_SUCCESS)
    /\ UNCHANGED <<res, btn, led>> /\ Device /\ History

\* ghostcat_profile_set_name
ghostcat_profile_set_name(p, name) ==
    LET call == Call("profile_set_name", p, NoOne, 0, 0) IN
    /\ IF prof[p].name = NULL
       THEN Returned(call, GHOSTCAT_ERROR_CAPABILITY) /\ UNCHANGED prof
       ELSE /\ prof' = [prof EXCEPT ![p].name = name, ![p].dirty = TRUE]
            /\ Returned(call, GHOSTCAT_SUCCESS)
    /\ UNCHANGED <<res, btn, led>> /\ Device /\ History

(* ---------------- resolution setters ---------------- *)

\* resolution_has_dpi
resolution_has_dpi(x, dpi) == dpi \in res[x].dpis

\* the owning profile's dirty flag is set
ProfileDirty(p) == prof' = [prof EXCEPT ![p].dirty = TRUE]

\* a set_dpi that stores the x value only
ghostcat_resolution_set_dpi_x_only(x, dpi) ==
    LET call == Call("resolution_set_dpi", x[1], x[2], dpi, dpi) IN
    /\ IF ~resolution_has_dpi(x, dpi)
       THEN Returned(call, GHOSTCAT_ERROR_VALUE) /\ UNCHANGED <<prof, res>>
       ELSE /\ Returned(call, GHOSTCAT_SUCCESS)
            /\ IF res[x].dpi_x # dpi \/ res[x].dpi_y # dpi
               THEN /\ res' = [res EXCEPT ![x].dpi_x = dpi, ![x].dirty = TRUE]
                    /\ ProfileDirty(x[1])
               ELSE UNCHANGED <<prof, res>>
    /\ UNCHANGED <<btn, led>> /\ Device /\ History

\* ghostcat_resolution_set_dpi
ghostcat_resolution_set_dpi(x, dpi) ==
    LET call == Call("resolution_set_dpi", x[1], x[2], dpi, dpi) IN
    /\ IF ~resolution_has_dpi(x, dpi)
       THEN Returned(call, GHOSTCAT_ERROR_VALUE) /\ UNCHANGED <<prof, res>>
       ELSE /\ Returned(call, GHOSTCAT_SUCCESS)
            /\ IF res[x].dpi_x # dpi \/ res[x].dpi_y # dpi
               THEN /\ res' = [res EXCEPT ![x].dpi_x = dpi, ![x].dpi_y = dpi,
                                          ![x].dirty = TRUE]
                    /\ ProfileDirty(x[1])
               ELSE UNCHANGED <<prof, res>>
    /\ UNCHANGED <<btn, led>> /\ Device /\ History

\* ghostcat_resolution_set_dpi_xy
ghostcat_resolution_set_dpi_xy(x, dx, dy) ==
    LET call == Call("resolution_set_dpi_xy", x[1], x[2], dx, dy) IN
    /\ IF ~res[x].cap_separate_xy
       THEN Returned(call, GHOSTCAT_ERROR_CAPABILITY) /\ UNCHANGED <<prof, res>>
       ELSE IF (dx = 0 /\ dy # 0) \/ (dx # 0 /\ dy = 0)
       THEN Returned(call, GHOSTCAT_ERROR_VALUE) /\ UNCHANGED <<prof, res>>
       ELSE IF ~resolution_has_dpi(x, dx) \/ ~resolution_has_dpi(x, dy)
       THEN Returned(call, GHOSTCAT_ERROR_VALUE) /\ UNCHANGED <<prof, res>>
       ELSE /\ Returned(call, GHOSTCAT_SUCCESS)
            /\ IF res[x].dpi_x # dx \/ res[x].dpi_y # dy
               THEN /\ res' = [res EXCEPT ![x].dpi_x = dx, ![x].dpi_y = dy,
                                          ![x].dirty = TRUE]
                    /\ ProfileDirty(x[1])
               ELSE UNCHANGED <<prof, res>>
    /\ UNCHANGED <<btn, led>> /\ Device /\ History

\* a resolution set_active that leaves the siblings' is_active alone
ghostcat_resolution_set_active_keep(x) ==
    LET call == Call("resolution_set_active", x[1], x[2], 0, 0) IN
    /\ IF res[x].is_disabled
       THEN Returned(call, GHOSTCAT_ERROR_VALUE) /\ UNCHANGED <<prof, res>>
       ELSE /\ res' = [res EXCEPT ![x].is_active = TRUE, ![x].dirty = TRUE]
            /\ ProfileDirty(x[1])
            /\ Returned(call, GHOSTCAT_SUCCESS)
    /\ UNCHANGED <<btn, led>> /\ Device /\ History

\* ghostcat_resolution_set_active: clears is_active on every resolution of
\* the profile, then sets it (and dirty) on the target
ghostcat_resolution_set_active(x) ==
    LET call == Call("resolution_set_active", x[1], x[2], 0, 0) IN
    /\ IF res[x].is_disabled
       THEN Returned(call, GHOSTCAT_ERROR_VALUE) /\ UNCHANGED <<prof, res>>
       ELSE /\ res' = [y \in DOMAIN res |->
                    IF y = x
                    THEN [res[y] EXCEPT !.is_active = TRUE, !.dirty = TRUE]
                    ELSE IF y[1] = x[1]
                    THEN [res[y] EXCEPT !.is_active = FALSE]
                    ELSE res[y]]
            /\ ProfileDirty(x[1])
            /\ Returned(call, GHOSTCAT_SUCCESS)
    /\ UNCHANGED <<btn, led>> /\ Device /\ History

\* a set_default that does not look at is_disabled
ghostcat_resolution_set_default_unchecked(x) ==
    LET call == Call("resolution_set_default", x[1], x[2], 0, 0)
        others == {y \in DOMAIN res : y[1] = x[1] /\ y # x /\ res[y].is_default}
        changed == others # {} \/ ~res[x].is_default
    IN
    /\ res' = [y \in DOMAIN res |->
                    IF y \in others THEN [res[y] EXCEPT !.is_default = FALSE]
                    ELSE IF y = x /\ changed
                    THEN [res[y] EXCEPT !.is_default = TRUE, !.dirty = TRUE]
                    ELSE res[y]]
    /\ IF changed THEN ProfileDirty(x[1]) ELSE UNCHANGED prof
    /\ Returned(call, GHOSTCAT_SUCCESS)
    /\ UNCHANGED <<btn, led>> /\ Device /\ History

\* ghostcat_resolution_set_default: a sibling that held the bit loses it;
\* the dirty flag set in that loop is the target's, not the sibling's
ghostcat_resolution_set_default(x) ==
    LET call == Call("resolution_set_default", x[1], x[2], 0, 0)
        others == {y \in DOMAIN res : y[1] = x[1] /\ y # x /\ res[y].is_default}
        changed == others # {} \/ ~res[x].is_default
    IN
    /\ IF res[x].is_disabled
       THEN Returned(call, GHOSTCAT_ERROR_VALUE) /\ UNCHANGED <<prof, res>>
       ELSE /\ res' = [y \in DOMAIN res |->
                    IF y \in others THEN [res[y] EXCEPT !.is_default = FALSE]
                    ELSE IF y = x /\ changed
                    THEN [res[y] EXCEPT !.is_default = TRUE, !.dirty = TRUE]
                    ELSE res[y]]
            /\ IF changed THEN ProfileDirty(x[1]) ELSE UNCHANGED prof
            /\ Returned(call, GHOSTCAT_SUCCESS)
    /\ UNCHANGED <<btn, led>> /\ Device /\ History

\* ghostcat_resolution_set_dpi_shift_target: a sibling that held the bit
\* loses it and becomes dirty
ghostcat_resolution_set_dpi_shift_target(x) ==
    LET call == Call("resolution_set_dpi_shift_target", x[1], x[2], 0, 0)
        others == {y \in DOMAIN res :
                      y[1] = x[1] /\ y # x /\ res[y].is_dpi_shift_target}
        changed == others # {} \/ ~res[x].is_dpi_shift_target
    IN
    /\ IF res[x].is_disabled
       THEN Returned(call, GHOSTCAT_ERROR_VALUE) /\ UNCHANGED <<prof, res>>
       ELSE /\ res' = [y \in DOMAIN res |->
                    IF y \in others
                    THEN [res[y] EXCEPT !.is_dpi_shift_target = FALSE,
                                        !.dirty = TRUE]
                    ELSE IF y = x /\ ~res[x].is_dpi_shift_target
                    THEN [res[y] EXCEPT !.is_dpi_shift_target = TRUE,
                                        !.dirty = TRUE]
                    ELSE res[y]]
            /\ IF changed THEN ProfileDirty(x[1]) ELSE UNCHANGED prof
            /\ Returned(call, GHOSTCAT_SUCCESS)
    /\ UNCHANGED <<btn, led>> /\ Device /\ History

\* a set_disabled that stores the flag before it validates it
ghostcat_resolution_set_disabled_early(x, disable) ==
    LET call == Call("resolution_set_disabled", x[1], x[2], B2N(disable), 0) IN
    /\ IF ~res[x].cap_disable
       THEN Returned(call, GHOSTCAT_ERROR_CAPABILITY) /\ UNCHANGED <<prof, res>>
       ELSE /\ res' = [res EXCEPT ![x].is_disabled = disable,
                                  ![x].dirty = TRUE]
            /\ ProfileDirty(x[1])
            /\ IF disable /\ (res[x].is_active \/ res[x].is_default)
               THEN Returned(call, GHOSTCAT_ERROR_VALUE)
               ELSE Returned(call, GHOSTCAT_SUCCESS)
    /\ UNCHANGED <<btn, led>> /\ Device /\ History

\* ghostcat_resolution_set_disabled: refuses to disable the active and the
\* default resolution; the DPI shift target is not looked at
ghostcat_resolution_set_disabled(x, disable) ==
    LET call == Call("resolution_set_disabled", x[1], x[2], B2N(disable), 0) IN
    /\ IF ~res[x].cap_disable
       THEN Returned(call, GHOSTCAT_ERROR_CAPABILITY) /\ UNCHANGED <<prof, res>>
       ELSE IF disable /\ res[x].is_active
       THEN Returned(call, GHOSTCAT_ERROR_VALUE) /\ UNCHANGED <<prof, res>>
       ELSE IF disable /\ res[x].is_default
       THEN Returned(call, GHOSTCAT_ERROR_VALUE) /\ UNCHANGED <<prof, res>>
       ELSE /\ res' = [res EXCEPT ![x].is_disabled = disable,
                                  ![x].dirty = TRUE]
            /\ ProfileDirty(x[1])
            /\ Returned(call, GHOSTCAT_SUCCESS)
    /\ UNCHANGED <<btn, led>> /\ Device /\ History

(* ---------------- button and LED setters ---------------- *)

\* ghostcat_button_has_action_type
ghostcat_button_has_action_type(x, type) == type \in btn[x].action_caps

\* a set_action that copies the whole action, its macro pointer included
ghostcat_button_set_action_whole(b, action) ==
    [b EXCEPT !.type = action.type, !.value = action.value,
              !.macro = action.macro]

\* ghostcat_button_set_action: button->action = *action, and the button's
\* own macro pointer is put back unless the new action is a macro
ghostcat_button_set_action(b, action) ==
    [b EXCEPT !.type = action.type, !.value = action.value,
              !.macro = IF action.type # "macro" THEN b.macro
                        ELSE action.macro]

\* ghostcat_button_set_button / _set_special / _set_key / _disable: the
\* four setters differ in the action type they check and assign only;
\* the action they build is zeroed but for its type and value
ButtonSetter(name, x, type, value) ==
    LET call == Call(name, x[1], x[2], value, 0) IN
    /\ IF ~ghostcat_button_has_action_type(x, type)
       THEN Returned(call, GHOSTCAT_ERROR_CAPABILITY) /\ UNCHANGED <<prof, btn>>
       ELSE /\ btn' = [btn EXCEPT
                         ![x] = [ghostcat_button_set_action(
                                     btn[x], [type |-> type, value |-> value,
                                              macro |-> NoMacro])
                                 EXCEPT !.dirty = TRUE]]
            /\ ProfileDirty(x[1])
            /\ Returned(call, GHOSTCAT_SUCCESS)
    /\ UNCHANGED <<res, led>> /\ Device /\ History

ghostcat_button_set_button(x, b) == ButtonSetter("button_set_button", x, "button", b)
ghostcat_button_set_special(x, a) == ButtonSetter("button_set_special", x, "special", a)
ghostcat_button_set_key(x, k) == ButtonSetter("button_set_key", x, "key", k)
ghostcat_button_disable(x) == ButtonSetter("button_disable", x, "none", 0)

\* ghostcat_button_set_macro: ghostcat_button_copy_macro allocates the
\* button's macro if there is none, else clears it, sets the action type
\* and copies the events
ghostcat_button_set_macro(x, ev) ==
    LET call == Call("button_set_macro", x[1], x[2], Len(ev), 0) IN
    /\ IF ~ghostcat_button_has_action_type(x, "macro")
       THEN Returned(call, GHOSTCAT_ERROR_CAPABILITY) /\ UNCHANGED <<prof, btn>>
       ELSE /\ btn' = [btn EXCEPT
                         ![x].type = "macro",
                         ![x].macro = [alloc |-> TRUE, events |-> ev],
                         ![x].dirty = TRUE]
            /\ ProfileDirty(x[1])
            /\ Returned(call, GHOSTCAT_SUCCESS)
    /\ UNCHANGED <<res, led>> /\ Device /\ History

\* enum ghostcat_led_mode
ghostcat_led_mode == [off |-> 0, on |-> 1, cycle |-> 2, breathing |-> 3]

\* ghostcat_led_set_mode / _set_color / _set_effect_duration /
\* _set_brightness: each assigns its field and sets both dirty flags
ghostcat_led_set_mode(x, mode) ==
    /\ led' = [led EXCEPT ![x].mode = mode, ![x].dirty = TRUE]
    /\ ProfileDirty(x[1])
    /\ Returned(Call("led_set_mode", x[1], x[2], ghostcat_led_mode[mode], 0), GHOSTCAT_SUCCESS)
    /\ UNCHANGED <<res, btn>> /\ Device /\ History

ghostcat_led_set_color(x, color) ==
    /\ led' = [led EXCEPT ![x].color = color, ![x].dirty = TRUE]
    /\ ProfileDirty(x[1])
    /\ Returned(Call("led_set_color", x[1], x[2], color, 0), GHOSTCAT_SUCCESS)
    /\ UNCHANGED <<res, btn>> /\ Device /\ History

ghostcat_led_set_effect_duration(x, ms) ==
    /\ led' = [led EXCEPT ![x].ms = ms, ![x].dirty = TRUE]
    /\ ProfileDirty(x[1])
    /\ Returned(Call("led_set_effect_duration", x[1], x[2], ms, 0), GHOSTCAT_SUCCESS)
    /\ UNCHANGED <<res, btn>> /\ Device /\ History

ghostcat_led_set_brightness(x, brightness) ==
    /\ led' = [led EXCEPT ![x].brightness = brightness, ![x].dirty = TRUE]
    /\ ProfileDirty(x[1])
    /\ Returned(Call("led_set_brightness", x[1], x[2], brightness, 0), GHOSTCAT_SUCCESS)
    /\ UNCHANGED <<res, btn>> /\ Device /\ History

(* ---------------- drivers and commit ---------------- *)

\* device->driver->set_active_profile != NULL
HasSetActiveProfile(drv) == drv # "other_noactive"

\* what a driver's commit callback can return: test_commit and
\* marsgaming_commit always return 0, another driver 0 or an error
CommitRcs(drv) ==
    IF drv \in {"test_driver", "marsgaming"} THEN {0} ELSE CallbackRcs

\* what a driver's set_active_profile callback can return:
\* test_set_active_profile and marsgaming_set_active_profile return 0
SetActiveProfileRcs(drv) ==
    IF drv \in {"test_driver", "marsgaming"} THEN {0} ELSE CallbackRcs

\* marsgaming_commit_profiles: every profile's is_active is overwritten
\* with "is the profile the hardware reports as current"
marsgaming_commit_profiles(pf, current_profile) ==
    [p \in Profiles |-> [pf[p] EXCEPT !.is_active = (current_profile = p)]]

\* device->driver->commit(device): the profiles as the callback leaves them
DriverCommit(drv, pf, current_profile) ==
    IF drv = "marsgaming" THEN marsgaming_commit_profiles(pf, current_profile)
    ELSE pf

\* the dirty flags ghostcat_device_commit clears on a profile before it
\* looks at is_active_dirty
ClearProfileDirty(pr) ==
    [pr EXCEPT !.dirty = FALSE, !.angle_snapping_dirty = FALSE,
               !.debounce_dirty = FALSE, !.rate_dirty = FALSE]

\* a commit loop that leaves the children's dirty flags as they are
ClearChildrenDirty_skip(f, p) == f

\* the dirty flag of every child of profile p cleared
ClearChildrenDirty(f, p) ==
    [x \in DOMAIN f |-> IF x[1] = p THEN [f[x] EXCEPT !.dirty = FALSE] ELSE f[x]]

\* ghostcat_device_commit, the loop over the profiles from profile p on.
\* st = [prof, res, btn, led, calls]; sap_rc is what set_active_profile
\* returns. The loop returns early, leaving the rest untouched, when the
\* callback is missing or fails.
RECURSIVE CommitLoop(_, _, _, _)
CommitLoop(p, st, drv, sap_rc) ==
    IF p = NumProfiles THEN [st EXCEPT !.rc = GHOSTCAT_SUCCESS]
    ELSE
    LET cleared == [st EXCEPT
            !.prof = [st.prof EXCEPT ![p] = ClearProfileDirty(@)],
            !.btn = ClearChildrenDirty(st.btn, p),
            !.led = ClearChildrenDirty(st.led, p),
            !.res = ClearChildrenDirty(st.res, p)]
        switch == st.prof[p].is_active_dirty /\ st.prof[p].is_active
        called == [cleared EXCEPT
            !.calls = Append(@, <<"set_active_profile", p>>)]
    IN
    IF switch /\ ~HasSetActiveProfile(drv)
    THEN [cleared EXCEPT !.rc = GHOSTCAT_ERROR_IMPLEMENTATION]
    ELSE IF switch /\ sap_rc # 0
    THEN [called EXCEPT !.rc = GHOSTCAT_ERROR_DEVICE]
    ELSE CommitLoop(p + 1,
            [(IF switch THEN called ELSE cleared) EXCEPT
                !.prof = [@ EXCEPT ![p].is_active_dirty = FALSE]],
            drv, sap_rc)

\* ghostcat_device_commit: the driver's commit, then, unless it failed,
\* the loop. commit_rc and sap_rc are what the driver's callbacks return.
DeviceCommitResult(commit_rc, sap_rc) ==
    LET st0 == [prof |-> DriverCommit(driver, prof, hwProfile), res |-> res,
                btn |-> btn, led |-> led, calls |-> <<<<"commit">>>>,
                rc |-> GHOSTCAT_ERROR_DEVICE]
    IN IF commit_rc # 0 THEN st0 ELSE CommitLoop(0, st0, driver, sap_rc)

\* marsgaming_set_active_profile / marsgaming_command_set_current_profile:
\* the hardware switches to the last profile the callback was invoked with
HwProfileAfter(calls) ==
    LET idx == {i \in 1 .. Len(calls) : calls[i][1] = "set_active_profile"}
    IN IF idx = {} \/ driver # "marsgaming" THEN hwProfile
       ELSE calls[CHOOSE i \in idx : \A j \in idx : j <= i][2]

ghostcat_device_commit(commit_rc, sap_rc) ==
    LET r == DeviceCommitResult(commit_rc, sap_rc) IN
    /\ prof' = r.prof /\ res' = r.res /\ btn' = r.btn /\ led' = r.led
    /\ drvCalls' = r.calls
    /\ hwProfile' = HwProfileAfter(r.calls)
    /\ Returned(Call("device_commit", NoOne, NoOne, 0, 0), r.rc)
    /\ applied' = requested
    /\ requested' = IF r.rc = GHOSTCAT_SUCCESS THEN NoOne ELSE requested
    /\ UNCHANGED <<driver, probed>>

\* the user switches the profile with the button on the mouse
HardwareProfileSwitch(p) ==
    /\ driver = "marsgaming"
    /\ hwProfile # p
    /\ hwProfile' = p
    /\ UNCHANGED <<prof, res, btn, led, driver, op, ret, drvCalls,
                   requested, applied, probed>>

\* before ghostcatd_run: no timer source. sources holds, for every armed
\* poll source, its deadline minus the current monotonic time; polled is
\* what the last handler polled, tick whether that handler was the poll
\* callback.
NoTimers == [running |-> FALSE, sources |-> <<>>, tick |-> FALSE,
             polled |-> <<>>]

\* a handler other than the poll callback ran
NotATick(t) == [t EXCEPT !.tick = FALSE, !.polled = <<>>]

\* nothing sent to the mouse: no commit was the last call
NoWrites == [committed |-> FALSE, commit_rc |-> 0, writes |-> <<>>]

\* the indices of a profile's children of one kind, in index order
RECURSIVE ChildSeq(_, _, _)
ChildSeq(f, p, i) ==
    IF <<p, i>> \notin DOMAIN f THEN <<>>
    ELSE <<i>> \o ChildSeq(f, p, i + 1)

\* marsgaming_commit_profile_report_rate: one polling-interval command
\* when the rate is dirty
marsgaming_commit_profile_report_rate(pr, p) ==
    IF pr.rate_dirty THEN << <<"rate", p>> >> ELSE <<>>

\* marsgaming_commit_profile_resolutions: one command with all the
\* resolutions when any is dirty
marsgaming_commit_profile_resolutions(rs, p) ==
    IF \E x \in DOMAIN rs : x[1] = p /\ rs[x].dirty
    THEN << <<"resolutions", p>> >> ELSE <<>>

\* marsgaming_commit_profile_buttons: one command with all the buttons
\* when any is dirty
marsgaming_commit_profile_buttons(bt, p) ==
    IF \E x \in DOMAIN bt : x[1] = p /\ bt[x].dirty
    THEN << <<"buttons", p>> >> ELSE <<>>

\* marsgaming_commit_profile_leds / marsgaming_commit_led: one command
\* per dirty LED, in index order
marsgaming_commit_profile_leds(ld, p) ==
    LET idx == ChildSeq(ld, p, 0)
        dirty == SelectSeq(idx, LAMBDA l : ld[<<p, l>>].dirty)
    IN [k \in 1 .. Len(dirty) |-> <<"led", p>>]

\* a profile committed with the LEDs written first
marsgaming_commit_profile_leds_first(pr, rs, bt, ld, p) ==
    IF ~pr.dirty THEN <<>>
    ELSE marsgaming_commit_profile_leds(ld, p)
         \o marsgaming_commit_profile_report_rate(pr, p)
         \o marsgaming_commit_profile_resolutions(rs, p)
         \o marsgaming_commit_profile_buttons(bt, p)

\* marsgaming_commit_profile: nothing for a clean profile, else the rate,
\* the resolutions, the buttons and the LEDs, in this order
marsgaming_commit_profile(pr, rs, bt, ld, p) ==
    IF ~pr.dirty THEN <<>>
    ELSE marsgaming_commit_profile_report_rate(pr, p)
         \o marsgaming_commit_profile_resolutions(rs, p)
         \o marsgaming_commit_profile_buttons(bt, p)
         \o marsgaming_commit_profile_leds(ld, p)

\* marsgaming_commit: the commands of the profiles from profile p on
RECURSIVE marsgaming_commit(_)
marsgaming_commit(p) ==
    IF p = NumProfiles THEN <<>>
    ELSE marsgaming_commit_profile(prof[p], res, btn, led, p)
         \o marsgaming_commit(p + 1)

\* ghostcat_device_commit with what reaches the mouse: the commands of
\* the driver's commit callback (those of marsgaming_commit; the test
\* driver sends none), then one command per set_active_profile call
ghostcat_device_commit_writes(commit_rc, sap_rc) ==
    LET calls == DeviceCommitResult(commit_rc, sap_rc).calls
        active == SelectSeq(calls, LAMBDA c : c[1] = "set_active_profile")
    IN
    /\ ghostcat_device_commit(commit_rc, sap_rc)
    /\ hw' = [committed |-> TRUE, commit_rc |-> commit_rc,
              writes |-> (IF driver = "marsgaming" THEN marsgaming_commit(0)
                          ELSE <<>>) \o active]

(* ---------------- the library: reference counts ---------------- *)

\* most handles a client holds at one time in SpecRefs
MaxHandles == 4

\* the entities a handle can refer to: <<kind, profile, index>>
TheDevice == <<"device", NoOne, NoOne>>
ProfileOf(p) == <<"profile", p, NoOne>>
Children(p) ==
    {<<"resolution", p, r>> : r \in Resolutions}
    \cup {<<"button", p, b>> : b \in Buttons}
    \cup {<<"led", p, l>> : l \in Leds}
Entities ==
    {TheDevice} \cup {ProfileOf(p) : p \in Profiles}
    \cup UNION {Children(p) : p \in Profiles}

\* ghostcat_device_new: the device starts with refcount 1, the creator's
\* handle; ghostcat_create_profile, _resolution, _button and _led start
\* their entity with refcount 0
NoHandles ==
    [count |-> [e \in Entities |-> IF e = TheDevice THEN 1 ELSE 0],
     held |-> [e \in Entities |-> IF e = TheDevice THEN 1 ELSE 0],
     destroyed |-> FALSE, aborted |-> FALSE]

\* ghostcat_device_ref
ghostcat_device_ref(rf) == [rf EXCEPT !.count[TheDevice] = @ + 1]

\* ghostcat_device_unref: assert(refcount > 0), one reference less, and
\* ghostcat_device_destroy when none is left
ghostcat_device_unref(rf) ==
    [rf EXCEPT !.aborted = @ \/ ~(rf.count[TheDevice] > 0),
               !.count[TheDevice] = @ - 1,
               !.destroyed = @ \/ rf.count[TheDevice] - 1 = 0]

\* a profile reference that does not pin the device
ghostcat_profile_ref_unpinned(rf, p) ==
    [rf EXCEPT !.count[ProfileOf(p)] = @ + 1]

\* ghostcat_profile_ref: a reference to the device, then to the profile
ghostcat_profile_ref(rf, p) ==
    [ghostcat_device_ref(rf) EXCEPT !.count[ProfileOf(p)] = @ + 1]

\* ghostcat_profile_unref: assert(refcount > 0), one reference less, then
\* the device's reference is dropped
ghostcat_profile_unref(rf, p) ==
    ghostcat_device_unref(
        [rf EXCEPT !.aborted = @ \/ ~(rf.count[ProfileOf(p)] > 0),
                   !.count[ProfileOf(p)] = @ - 1])

\* ghostcat_resolution_ref, ghostcat_button_ref, ghostcat_led_ref: a
\* reference to the profile, then to the child
ghostcat_resolution_ref(rf, x) ==
    [ghostcat_profile_ref(rf, x[2]) EXCEPT !.count[x] = @ + 1]
ghostcat_button_ref(rf, x) ==
    [ghostcat_profile_ref(rf, x[2]) EXCEPT !.count[x] = @ + 1]
ghostcat_led_ref(rf, x) ==
    [ghostcat_profile_ref(rf, x[2]) EXCEPT !.count[x] = @ + 1]

\* ghostcat_resolution_unref, ghostcat_button_unref, ghostcat_led_unref:
\* assert(refcount > 0), one reference less, then the profile's reference
\* is dropped
ghostcat_resolution_unref(rf, x) ==
    ghostcat_profile_unref(
        [rf EXCEPT !.aborted = @ \/ ~(rf.count[x] > 0),
                   !.count[x] = @ - 1], x[2])
ghostcat_button_unref(rf, x) ==
    ghostcat_profile_unref(
        [rf EXCEPT !.aborted = @ \/ ~(rf.count[x] > 0),
                   !.count[x] = @ - 1], x[2])
ghostcat_led_unref(rf, x) ==
    ghostcat_profile_unref(
        [rf EXCEPT !.aborted = @ \/ ~(rf.count[x] > 0),
                   !.count[x] = @ - 1], x[2])

\* the *_ref and *_unref function of an entity
RefOf(rf, e) ==
    CASE e[1] = "device" -> ghostcat_device_ref(rf)
      [] e[1] = "profile" -> ghostcat_profile_ref(rf, e[2])
      [] e[1] = "resolution" -> ghostcat_resolution_ref(rf, e)
      [] e[1] = "button" -> ghostcat_button_ref(rf, e)
      [] e[1] = "led" -> ghostcat_led_ref(rf, e)
UnrefOf(rf, e) ==
    CASE e[1] = "device" -> ghostcat_device_unref(rf)
      [] e[1] = "profile" -> ghostcat_profile_unref(rf, e[2])
      [] e[1] = "resolution" -> ghostcat_resolution_unref(rf, e)
      [] e[1] = "button" -> ghostcat_button_unref(rf, e)
      [] e[1] = "led" -> ghostcat_led_unref(rf, e)

\* the sum of f over the entities of S
RECURSIVE SumOver(_, _)
SumOver(f, S) ==
    IF S = {} THEN 0
    ELSE LET e == CHOOSE x \in S : TRUE IN f[e] + SumOver(f, S \ {e})

\* ghostcat_device_get_profile, ghostcat_profile_get_resolution,
\* ghostcat_profile_get_button, ghostcat_profile_get_led: NULL for an index
\* out of range, else a new reference to the entity of that index;
\* ghostcat_device_ref and the *_ref functions on a handle the client has
GetOrRef(kind, p, i) ==
    LET e == <<kind, p, i>> IN
    /\ ~refs.destroyed
    /\ SumOver(refs.held, Entities) < MaxHandles
    /\ kind = "device" \/ refs.held[TheDevice] > 0
           \/ \E h \in Entities : h[2] = p /\ refs.held[h] > 0
    /\ refs' = IF e \in Entities
               THEN [RefOf(refs, e) EXCEPT !.held[e] = @ + 1]
               ELSE refs

\* the *_unref function on a handle the client has
Unref(e) ==
    /\ ~refs.destroyed
    /\ refs.held[e] > 0
    /\ refs' = [UnrefOf(refs, e) EXCEPT !.held[e] = @ - 1]

(* ---------------- the daemon: the device registry ---------------- *)

\* device objects (struct ghostcatd_device) alive at one time, and commit
\* tasks queued at one time, in SpecRegistry
MaxDevices == 3
MaxTasks == 2

DevIds == 1 .. MaxDevices
NoDev == 0

\* the sysnames of the hot-plug events, in strcmp order, and a sysname
\* that does not start with "hidraw"
SysnameOrder == <<"hidraw0", "hidraw10", "hidraw2">>
Sysnames == {SysnameOrder[i] : i \in DOMAIN SysnameOrder}
OtherSysnames == {"input0"}
strcmp(a, b) ==
    (CHOOSE i \in DOMAIN SysnameOrder : SysnameOrder[i] = a)
    - (CHOOSE i \in DOMAIN SysnameOrder : SysnameOrder[i] = b)

\* the bus objects a device registers: the fallback vtable and node
\* enumerator of its profiles, and of each profile's resolutions, buttons
\* and LEDs
ChildSlots == {"resolution", "button", "led"}
AllSlots == {"profile"} \cup ChildSlots

NoDevice == [sysname |-> NULL, refcount |-> 0, linked |-> FALSE, slots |-> {}]
NoEvent == [action |-> "none", sysname |-> NULL, device |-> NoDev,
            construction |-> "none", signals |-> {}]

\* the registry of a daemon that has seen no device yet
EmptyRegistry ==
    [root |-> NoDev, left |-> [d \in DevIds |-> NoDev],
     right |-> [d \in DevIds |-> NoDev], n_devices |-> 0,
     dev |-> [d \in DevIds |-> NoDevice], tasks |-> <<>>,
     event |-> NoEvent, aborted |-> FALSE]

\* the ordered tree of the registry: a binary search tree whose in-order
\* sequence rbtree_first / rbnode_next walk; rebalancing keeps that
\* sequence and is left out
RECURSIVE Leftmost(_, _)
Leftmost(rg, n) ==
    IF n = NoDev THEN NoDev
    ELSE IF rg.left[n] = NoDev THEN n ELSE Leftmost(rg, rg.left[n])

rbtree_first(rg) == Leftmost(rg, rg.root)

ParentOf(rg, n) ==
    IF \E q \in DevIds : rg.left[q] = n \/ rg.right[q] = n
    THEN CHOOSE q \in DevIds : rg.left[q] = n \/ rg.right[q] = n
    ELSE NoDev

RECURSIVE ClimbNext(_, _)
ClimbNext(rg, n) ==
    LET q == ParentOf(rg, n) IN
    IF q = NoDev THEN NoDev
    ELSE IF rg.left[q] = n THEN q ELSE ClimbNext(rg, q)

rbnode_next(rg, n) ==
    IF rg.right[n] # NoDev THEN Leftmost(rg, rg.right[n])
    ELSE ClimbNext(rg, n)

\* rbtree_add: node n goes into the slot found by the caller
rbtree_add(rg, parent, side, n) ==
    IF parent = NoDev THEN [rg EXCEPT !.root = n, !.dev[n].linked = TRUE]
    ELSE IF side = "left"
    THEN [rg EXCEPT !.left[parent] = n, !.dev[n].linked = TRUE]
    ELSE [rg EXCEPT !.right[parent] = n, !.dev[n].linked = TRUE]

\* whatever pointed to node old points to node new
Replace(rg, old, new) ==
    [rg EXCEPT !.root = IF rg.root = old THEN new ELSE rg.root,
               !.left = [d \in DevIds |->
                            IF rg.left[d] = old THEN new ELSE rg.left[d]],
               !.right = [d \in DevIds |->
                            IF rg.right[d] = old THEN new ELSE rg.right[d]]]

\* rbtree_remove followed by rbnode_init: a node with at most one child is
\* replaced by that child, another one by its in-order successor
rbtree_remove(rg, n) ==
    LET l == rg.left[n]
        r == rg.right[n]
        s == Leftmost(rg, r)
        t1 == Replace(rg, s, rg.right[s])
        t2 == [t1 EXCEPT !.left[s] = t1.left[n], !.right[s] = t1.right[n]]
        out == IF l = NoDev THEN Replace(rg, n, r)
               ELSE IF r = NoDev THEN Replace(rg, n, l)
               ELSE Replace(t2, n, s)
    IN [out EXCEPT !.left[n] = NoDev, !.right[n] = NoDev,
                   !.dev[n].linked = FALSE]

\* ghostcatd_device_lookup: the descent from node by strcmp
RECURSIVE lookup_from(_, _, _)
lookup_from(rg, node, name) ==
    IF node = NoDev THEN NoDev
    ELSE LET v == strcmp(name, rg.dev[node].sysname) IN
         IF v = 0 THEN node
         ELSE IF v < 0 THEN lookup_from(rg, rg.left[node], name)
         ELSE lookup_from(rg, rg.right[node], name)

\* a lookup that looks at the root only
ghostcatd_device_lookup_root(rg, name) ==
    IF rg.root # NoDev /\ rg.dev[rg.root].sysname = name
    THEN rg.root ELSE NoDev

ghostcatd_device_lookup(rg, name) == lookup_from(rg, rg.root, name)

\* ghostcatd_device_link, "find place to link it to": the slot where the
\* descent by strcmp ends, and whether it met the name on its way
RECURSIVE link_descend(_, _, _, _, _)
link_descend(rg, node, parent, side, name) ==
    IF node = NoDev
    THEN [parent |-> parent, side |-> side, duplicate |-> FALSE]
    ELSE LET v == strcmp(name, rg.dev[node].sysname) IN
         IF v = 0
         THEN [parent |-> parent, side |-> side, duplicate |-> TRUE]
         ELSE IF v < 0
         THEN link_descend(rg, rg.left[node], node, "left", name)
         ELSE link_descend(rg, rg.right[node], node, "right", name)

\* a link that appends the device at the right end of the tree
ghostcatd_device_link_last(rg, d) ==
    LET last == IF rg.root = NoDev THEN NoDev
                ELSE CHOOSE n \in {x \in DevIds : rg.dev[x].linked} :
                         /\ rg.right[n] = NoDev
                         /\ \A q \in DevIds : rg.left[q] # n
    IN [rbtree_add(rg, last, "right", d) EXCEPT
            !.n_devices = @ + 1, !.dev[d].slots = AllSlots]

\* ghostcatd_device_link: the device must not be linked and its sysname
\* must not be in the tree (two assertions); it is added to the tree, and
\* the bus objects of its profiles and of their resolutions, buttons and
\* LEDs are registered
ghostcatd_device_link(rg, d) ==
    LET at == link_descend(rg, rg.root, NoDev, "root", rg.dev[d].sysname) IN
    IF rg.dev[d].linked \/ at.duplicate
    THEN [rg EXCEPT !.aborted = TRUE]
    ELSE [rbtree_add(rg, at.parent, at.side, d) EXCEPT
              !.n_devices = @ + 1, !.dev[d].slots = AllSlots]

\* ghostcatd_device_unlink: nothing for a device that is not linked; else
\* the two slots of the profile objects are released and the device leaves
\* the tree
ghostcatd_device_unlink(rg, d) ==
    IF ~rg.dev[d].linked THEN rg
    ELSE [rbtree_remove(rg, d) EXCEPT
              !.n_devices = @ - 1, !.dev[d].slots = @ \ {"profile"}]

\* ghostcatd_device_free: the device must not be linked (assertion);
\* ghostcatd_profile_free releases the slots of the resolution, button and
\* LED objects of every profile
ghostcatd_device_free(rg, d) ==
    [rg EXCEPT !.aborted = @ \/ rg.dev[d].linked, !.dev[d] = NoDevice]

\* ghostcatd_device_ref and ghostcatd_device_unref on device d of the
\* registry: the last reference frees the device
ghostcatd_device_ref(rg, d) == [rg EXCEPT !.dev[d].refcount = @ + 1]
ghostcatd_device_unref_of(rg, d) ==
    IF rg.dev[d].refcount - 1 = 0
    THEN ghostcatd_device_free(rg, d)
    ELSE [rg EXCEPT !.dev[d].refcount = @ - 1]

\* ghostcatd_device_new: a device for the sysname with refcount 1, not
\* linked, nothing registered
ghostcatd_device_new(rg, d, sysname) ==
    [rg EXCEPT !.dev[d] = [sysname |-> sysname, refcount |-> 1,
                           linked |-> FALSE, slots |-> {}]]

\* GHOSTCATD_DEVICE_FOREACH: ghostcatd_device_first, then
\* ghostcatd_device_next until it returns NULL
RECURSIVE IterateFrom(_, _, _)
IterateFrom(rg, n, fuel) ==
    IF n = NoDev \/ fuel = 0 THEN <<>>
    ELSE <<n>> \o IterateFrom(rg, rbnode_next(rg, n), fuel - 1)
GHOSTCATD_DEVICE_FOREACH(rg) ==
    IterateFrom(rg, rbtree_first(rg), MaxDevices + 2)

\* outcomes of the construction of a device for an unknown sysname:
\* success, ghostcat_device_new_from_udev_device failing (unsupported
\* device), ghostcatd_device_new failing
Constructions == {"ok", "unsupported", "untracked"}

\* ghostcatd_process_device: a hot-plug event (or one device of the
\* enumeration at startup) with the given udev action and sysname
ghostcatd_process_device(action, sysname, construction) ==
    LET device == IF sysname \in Sysnames
                  THEN ghostcatd_device_lookup(reg, sysname) ELSE NoDev
        constructs == sysname \in Sysnames /\ action # "remove"
                          /\ device = NoDev
        ev(sig) == [action |-> action, sysname |-> sysname,
                    device |-> device,
                    construction |-> IF constructs THEN construction
                                     ELSE "none",
                    signals |-> sig]
        d == CHOOSE x \in DevIds :
                 /\ reg.dev[x].refcount = 0
                 /\ \A y \in DevIds : reg.dev[y].refcount = 0 => x <= y
    IN
    /\ ~reg.aborted
    /\ IF sysname \notin Sysnames
       THEN reg' = [reg EXCEPT !.event = ev({})]
       ELSE IF action = "remove"
       THEN IF device # NoDev
            THEN reg' = [ghostcatd_device_unref_of(
                             ghostcatd_device_unlink(reg, device), device)
                         EXCEPT !.event = ev({"Devices"})]
            ELSE reg' = [reg EXCEPT !.event = ev({})]
       ELSE IF device # NoDev
       THEN reg' = [reg EXCEPT !.event = ev({})]
       ELSE IF construction # "ok"
       THEN reg' = [reg EXCEPT !.event = ev({})]
       ELSE /\ \E x \in DevIds : reg.dev[x].refcount = 0
            /\ reg' = [ghostcatd_device_link(
                           ghostcatd_device_new(reg, d, sysname), d)
                       EXCEPT !.event = ev({"Devices"})]

\* ghostcatd_device_commit for the device the bus finds under the sysname
\* (ghostcatd_find_device looks it up in the registry): a task holding a
\* new reference to the device is scheduled
RegistryCommit(sysname) ==
    LET device == ghostcatd_device_lookup(reg, sysname) IN
    /\ ~reg.aborted
    /\ device # NoDev
    /\ Len(reg.tasks) < MaxTasks
    /\ reg' = [ghostcatd_device_ref(reg, device) EXCEPT
                   !.tasks = Append(@, device), !.event = NoEvent]

\* ghostcatd_device_commit_pending for the first task of the queue: after
\* the commit the task's reference is dropped
RegistryCommitPending ==
    /\ ~reg.aborted
    /\ reg.tasks # <<>>
    /\ reg' = [ghostcatd_device_unref_of(
                   [reg EXCEPT !.tasks = Tail(@)], Head(reg.tasks))
               EXCEPT !.event = NoEvent]

\* a shutdown that drops the registry's reference to a device it leaves
\* linked
ghostcatd_free_device_linked(rg, d) == ghostcatd_device_unref_of(rg, d)

\* ghostcatd_free, the body of its loop for device d: the device is
\* unlinked, then the registry's reference is dropped
ghostcatd_free_device(rg, d) ==
    ghostcatd_device_unref_of(ghostcatd_device_unlink(rg, d), d)

\* GHOSTCATD_DEVICE_FOREACH_SAFE in ghostcatd_free over the devices ds
RECURSIVE ghostcatd_free_devices(_, _)
ghostcatd_free_devices(rg, ds) ==
    IF ds = <<>> THEN rg
    ELSE ghostcatd_free_devices(ghostcatd_free_device(rg, Head(ds)), Tail(ds))

\* the daemon has left its event loop and freed its context
Stopped(rg) == rg.event.action = "shutdown"

\* ghostcatd_free at the end of main: every device of the registry is
\* unlinked and released; the event loop is gone, a task still pending
\* is never dispatched
ghostcatd_free ==
    /\ ~reg.aborted
    /\ ~Stopped(reg)
    /\ reg' = [ghostcatd_free_devices(reg, GHOSTCATD_DEVICE_FOREACH(reg))
               EXCEPT !.event = [NoEvent EXCEPT !.action = "shutdown"]]

(* ---------------- the library: probe and the sanity check ---------------- *)

\* no device has been created yet
NoProbe ==
    [phase |-> "none", driver |-> NULL, driver_set |-> FALSE,
     probe_rc |-> 0, pf |-> <<>>, rs |-> <<>>, rates |-> {},
     removes |-> 0, drv_data |-> FALSE, aborted |-> FALSE]

\* the test device descriptions of SpecProbe: any set of profiles marked
\* active, any flags on the resolutions of profile 0, with or without a
\* DPI range and a report rate on profile 0 / resolution 0
ProbeLayouts ==
    [Resolutions -> {TestResolution(a, d, x, TRUE) :
                        a \in BOOLEAN, d \in BOOLEAN, x \in BOOLEAN}]
ProbeDescriptions ==
    {[active |-> act, res |-> [p \in Profiles |->
                                  IF p = 0 THEN rd ELSE PlainResolutions],
      has_range |-> range, has_rates |-> rates] :
        act \in SUBSET Profiles, rd \in ProbeLayouts,
        range \in BOOLEAN, rates \in BOOLEAN}

\* test_probe: ghostcat_device_init_profiles, then test_read_profile for
\* every profile; the DPI list is set only if resolution 0 of profile 0
\* has a range, the report rate list only if profile 0 has a rate
test_probe(desc) ==
    [pf |-> [p \in Profiles |->
                test_read_profile(p \in desc.active, FALSE, TRUE)],
     rs |-> [x \in Profiles \X Resolutions |->
                [test_read_resolutions(desc.res[x[1]])[x[2]] EXCEPT
                    !.dpis = IF desc.has_range THEN @ ELSE {}]],
     rates |-> IF desc.has_rates THEN RateInputs ELSE {}]

\* marsgaming_probe when marsgaming_sanity_check lets it go on
marsgaming_probe ==
    [pf |-> [p \in Profiles |-> marsgaming_probe_profile(p, 0)],
     rs |-> [x \in Profiles \X Resolutions |->
                marsgaming_probe_resolution(x[2], 0)],
     rates |-> RateInputs]

\* what a driver's probe may return: 0, -ENODEV, another errno
ProbeRcs == {0, -19, -5}

\* ghostcat_try_driver: true when the probe returned 0 and
\* ghostcat_sanity_check_device (profile count, one active profile,
\* resolution count, DPI lists, report rate lists) accepts the device
ghostcat_try_driver(rc, g) ==
    /\ rc = 0
    /\ ghostcat_sanity_check_device(g.pf, g.rs)
    /\ g.rates # {}

\* a try_driver that forgets the driver whenever it returns false
DriverKept_never(rc) == FALSE

\* ghostcat_try_driver, device->driver when it returns false: the driver
\* stays set after a failed sanity check and is reset to NULL after a
\* failed probe
DriverKept(rc) == rc = 0

\* ghostcat_device_destroy: the driver's remove is called if the device
\* has a driver; test_remove asserts that the driver data is still there
ghostcat_device_destroy(pb) ==
    [pb EXCEPT !.phase = "destroyed",
               !.removes = IF pb.driver_set THEN @ + 1 ELSE @,
               !.aborted = @ \/ (pb.driver_set /\ pb.driver = "test_driver"
                                 /\ ~pb.drv_data),
               !.drv_data = IF pb.driver_set THEN FALSE ELSE @]

\* ghostcat_assign_driver and what its two callers do with the result
\* (ghostcat_device_new_test_device, ghostcat_device_new_from_udev_device):
\* the device is handed out when it returns true and destroyed otherwise
AssignDriver(drv, rc, g) ==
    LET tried == [NoProbe EXCEPT
                     !.driver = drv, !.probe_rc = rc,
                     !.pf = g.pf, !.rs = g.rs, !.rates = g.rates,
                     !.drv_data = (drv = "test_driver" \/ rc = 0),
                     !.driver_set = DriverKept(rc)]
    IN
    /\ probe.phase = "none"
    /\ probe' = IF ghostcat_try_driver(rc, g)
                THEN [tried EXCEPT !.phase = "accepted"]
                ELSE ghostcat_device_destroy(tried)

ghostcat_device_new_test_device(desc) ==
    AssignDriver("test_driver", 0, test_probe(desc))

ghostcat_device_new_from_udev_device(rc) ==
    AssignDriver("marsgaming", rc, marsgaming_probe)

\* ghostcat_device_unref dropping the last reference to an accepted
\* device
ProbedDeviceUnref ==
    /\ probe.phase = "accepted"
    /\ probe' = ghostcat_device_destroy(probe)

(* ---------------- the library on its own ---------------- *)

\* the handles ghostcatd_device_new / ghostcatd_profile_new take: one per
\* profile, resolution, button and LED, each pinning the device
HandleRefs == NumProfiles * (1 + NumResolutions + NumButtons + NumLeds)

\* ghostcatd_device_new followed by ghostcatd_device_link, as
\* ghostcatd_process_device and load_test_device run them: the daemon's
\* device holds one reference to the library device plus the handles, the
\* creator's own reference is dropped
Attached ==
    /\ timers = NoTimers
    /\ hw = NoWrites
    /\ probe = NoProbe
    /\ reg = EmptyRegistry
    /\ refs = NoHandles
    /\ bus = [name |-> "none", p |-> NoOne, value |-> 0, rc |-> 0,
              signals |-> {}]
    /\ macro = [set |-> FALSE, events |-> <<>>, encoded |-> <<>>]
    /\ keycode = [called |-> FALSE, rc |-> 0, key |-> NoOne,
                  modifiers |-> NoOne]
    /\ linked = TRUE
    /\ refcount = 1
    /\ lib_refcount = 1 + HandleRefs
    /\ drv_data = TRUE
    /\ tasks = <<>>
    /\ replies = <<>>
    /\ commits = <<>>
    /\ aborted = FALSE

ProfileSetters ==
    \/ \E p \in Profiles, e \in BOOLEAN : ghostcat_profile_set_enabled(p, e)
    \/ \E p \in Profiles : ghostcat_profile_set_active(p)
    \/ \E p \in Profiles, hz \in RateInputs : ghostcat_profile_set_report_rate(p, hz)
    \/ \E p \in Profiles, v \in AngleInputs : ghostcat_profile_set_angle_snapping(p, v)
    \/ \E p \in Profiles, v \in DebounceInputs : ghostcat_profile_set_debounce(p, v)
    \/ \E p \in Profiles, n \in NameInputs : ghostcat_profile_set_name(p, n)

ResolutionStatusSetters ==
    \/ \E x \in DOMAIN res : ghostcat_resolution_set_active(x)
    \/ \E x \in DOMAIN res : ghostcat_resolution_set_default(x)
    \/ \E x \in DOMAIN res : ghostcat_resolution_set_dpi_shift_target(x)
    \/ \E x \in DOMAIN res, d \in BOOLEAN : ghostcat_resolution_set_disabled(x, d)

ResolutionDpiSetters ==
    \/ \E x \in DOMAIN res, dpi \in DpiInputs : ghostcat_resolution_set_dpi(x, dpi)
    \/ \E x \in DOMAIN res, dx \in DpiInputs, dy \in DpiInputs :
            ghostcat_resolution_set_dpi_xy(x, dx, dy)

ButtonSetters ==
    \/ \E x \in DOMAIN btn, b \in ButtonInputs : ghostcat_button_set_button(x, b)
    \/ \E x \in DOMAIN btn, a \in ButtonInputs : ghostcat_button_set_special(x, a)
    \/ \E x \in DOMAIN btn, k \in ButtonInputs : ghostcat_button_set_key(x, k)
    \/ \E x \in DOMAIN btn : ghostcat_button_disable(x)

LedSetters ==
    \/ \E x \in DOMAIN led, m \in LedModeInputs : ghostcat_led_set_mode(x, m)
    \/ \E x \in DOMAIN led, c \in ColorInputs : ghostcat_led_set_color(x, c)
    \/ \E x \in DOMAIN led, ms \in DurationInputs : ghostcat_led_set_effect_duration(x, ms)
    \/ \E x \in DOMAIN led, b \in BrightnessInputs : ghostcat_led_set_brightness(x, b)

Commit ==
    \E commit_rc \in CommitRcs(driver), sap_rc \in SetActiveProfileRcs(driver) :
        ghostcat_device_commit(commit_rc, sap_rc)

HardwareSwitch == \E p \in Profiles : HardwareProfileSwitch(p)

\* one more call, while the budget lasts
Budget == ncalls < MaxCalls /\ ncalls' = ncalls + 1

\* Spec: a client of the library makes up to MaxCalls calls (any setter,
\* commit) on a freshly probed device of any driver.
Init ==
    /\ \E drv \in Drivers : ProbedState(drv, PlainDevice(0))
    /\ ncalls = 0
    /\ Attached

Next ==
    /\ UNCHANGED auxvars
    /\ Budget
    /\ UNCHANGED daemonvars
    /\ \/ ProfileSetters
       \/ ResolutionStatusSetters
       \/ ResolutionDpiSetters
       \/ ButtonSetters
       \/ LedSetters
       \/ Commit
       \/ HardwareSwitch

Spec == Init /\ [][Next]_vars

\* SpecProfile: the calls that decide which profile is active and which
\* are enabled (set_enabled, set_active, commit), without a budget, from
\* every device a probe can produce: any one profile active, any set of
\* profiles disabled, any set of profiles able to be disabled.
ProfileDevices ==
    {[PlainDevice(a) EXCEPT !.disabled = d, !.can_disable = c] :
        a \in Profiles, d \in SUBSET Profiles, c \in SUBSET Profiles}

InitProfile ==
    /\ \E drv \in Drivers, desc \in ProfileDevices : ProbedState(drv, desc)
    /\ ncalls = 0
    /\ Attached

NextProfile ==
    /\ UNCHANGED auxvars
    /\ UNCHANGED ncalls
    /\ UNCHANGED daemonvars
    /\ \/ \E p \in Profiles, e \in BOOLEAN : ghostcat_profile_set_enabled(p, e)
       \/ \E p \in Profiles : ghostcat_profile_set_active(p)
       \/ Commit
       \/ HardwareSwitch

SpecProfile == InitProfile /\ [][NextProfile]_vars

\* SpecRes: up to MaxCalls calls of the setters of the four status bits of
\* a resolution, from every test device whose probe left at most one
\* active and one default resolution per profile and no disabled
\* resolution active or default (the drivers of the source set no shift
\* target in probe), and from the marsgaming device. The resolutions of
\* profile 0 vary, each with or without the capability to be disabled.
ResolutionLayouts ==
    {rd \in [Resolutions -> {TestResolution(a, d, x, c) :
                                a \in BOOLEAN, d \in BOOLEAN, x \in BOOLEAN,
                                c \in BOOLEAN}] :
        /\ Cardinality({r \in Resolutions : rd[r].active}) <= 1
        /\ Cardinality({r \in Resolutions : rd[r].dflt}) <= 1
        /\ \A r \in Resolutions :
              rd[r].disabled => ~rd[r].active /\ ~rd[r].dflt}

ResolutionDevices ==
    {[PlainDevice(0) EXCEPT !.res[0] = rd] : rd \in ResolutionLayouts}

InitRes ==
    /\ \E drv \in {"test_driver", "marsgaming"}, desc \in ResolutionDevices :
          ProbedState(drv, desc)
    /\ \A x \in DOMAIN res :
          res[x].is_disabled =>
              ~res[x].is_active /\ ~res[x].is_default
              /\ ~res[x].is_dpi_shift_target
    /\ ncalls = 0
    /\ Attached

NextRes ==
    /\ UNCHANGED auxvars
    /\ Budget
    /\ UNCHANGED daemonvars
    /\ ResolutionStatusSetters

SpecRes == InitRes /\ [][NextRes]_vars

\* Devices for the DPI setters: test devices whose description gives
\* resolution r of every profile the values xres / yres and the
\* separate-xy capability or not, and the marsgaming device
DpiLayouts ==
    [Resolutions -> {[TestResolution(FALSE, FALSE, FALSE, FALSE) EXCEPT
                         !.xres = xres, !.yres = yres, !.cap_xy = cap_xy] :
                     xres \in DpiInputs, yres \in DpiInputs,
                     cap_xy \in BOOLEAN}]

DpiDevices ==
    {[PlainDevice(0) EXCEPT !.res = [p \in Profiles |-> rd]] :
        rd \in DpiLayouts}

InitDpi ==
    /\ \E drv \in {"test_driver", "marsgaming"}, desc \in DpiDevices :
          ProbedState(drv, desc)
    /\ ncalls = 0
    /\ Attached

NextDpi ==
    /\ UNCHANGED auxvars
    /\ Budget
    /\ UNCHANGED daemonvars
    /\ ResolutionDpiSetters

SpecDpi == InitDpi /\ [][NextDpi]_vars

(* ---------------- the daemon: deferred commit and hot-plug ---------------- *)

\* number of reactor dispatches explored by SpecDaemon
MaxTurns == 5

\* ghostcatd_device_unref: drops one reference; the last one frees the
\* device (ghostcatd_device_free: it must not be linked, the profile
\* handles and the daemon's own reference to the library device are
\* released, which must destroy it) and ghostcat_device_destroy calls the
\* driver's remove, which the test driver allows once only
ghostcatd_device_unref(still_linked) ==
    /\ refcount' = refcount - 1
    /\ IF refcount - 1 = 0
       THEN /\ lib_refcount' = lib_refcount - HandleRefs - 1
            /\ drv_data' = FALSE
            /\ aborted' = (aborted \/ still_linked
                           \/ lib_refcount - HandleRefs - 1 # 0
                           \/ (driver = "test_driver" /\ ~drv_data))
       ELSE UNCHANGED <<lib_refcount, drv_data, aborted>>

\* sd_bus_emit_properties_changed / sd_bus_emit_signal for an object of
\* the daemon: the emission is taken to succeed
sd_bus_emit == 0

\* ghostcatd_resolution_resync, ghostcatd_button_resync,
\* ghostcatd_led_resync: a PropertiesChanged signal for the properties of
\* the child
ghostcatd_resolution_resync(x) ==
    [rc |-> sd_bus_emit, signal |-> <<"resolution", x[1], x[2]>>]
ghostcatd_button_resync(x) ==
    [rc |-> sd_bus_emit, signal |-> <<"button", x[1], x[2]>>]
ghostcatd_led_resync(x) ==
    [rc |-> sd_bus_emit, signal |-> <<"led", x[1], x[2]>>]

\* ghostcatd_for_each_resolution_signal / _button_signal / _led_signal:
\* the children of profile p in index order, up to and including the
\* first one whose function does not return 0
ghostcatd_for_each_resolution_signal(p) ==
    {ghostcatd_resolution_resync(<<p, r>>).signal :
        r \in {i \in Resolutions :
                 \A j \in 0 .. (i - 1) :
                     ghostcatd_resolution_resync(<<p, j>>).rc = 0}}
ghostcatd_for_each_button_signal(p) ==
    {ghostcatd_button_resync(<<p, b>>).signal :
        b \in {i \in Buttons :
                 \A j \in 0 .. (i - 1) :
                     ghostcatd_button_resync(<<p, j>>).rc = 0}}
ghostcatd_for_each_led_signal(p) ==
    {ghostcatd_led_resync(<<p, l>>).signal :
        l \in {i \in Leds :
                 \A j \in 0 .. (i - 1) :
                     ghostcatd_led_resync(<<p, j>>).rc = 0}}

\* ghostcatd_profile_resync: the three loops over the children, then the
\* profile's own PropertiesChanged, whose result is returned
ghostcatd_profile_resync(p) ==
    [rc |-> sd_bus_emit,
     signals |-> ghostcatd_for_each_resolution_signal(p)
                 \cup ghostcatd_for_each_button_signal(p)
                 \cup ghostcatd_for_each_led_signal(p)
                 \cup {<<"profile", p, NoOne>>}]

\* ghostcatd_for_each_profile_signal with ghostcatd_profile_resync: the
\* profiles in index order, up to and including the first one whose
\* function does not return 0
ghostcatd_for_each_profile_signal ==
    UNION {ghostcatd_profile_resync(p).signals :
        p \in {i \in Profiles :
                 \A j \in 0 .. (i - 1) : ghostcatd_profile_resync(j).rc = 0}}

\* ghostcatd_device_resync: the profiles' signals, then the device's Resync
ghostcatd_device_resync ==
    ghostcatd_for_each_profile_signal \cup {<<"Resync", NoOne, NoOne>>}

\* a task that resyncs after every commit
ResyncNeeded_always(r) == TRUE

\* ghostcatd_device_commit_pending: if (r < 0) ghostcatd_device_resync(...)
ResyncNeeded(r) == r < 0

\* what a run of ghostcatd_device_commit_pending for request req leaves in
\* the log: the reactor dispatch, whether the device was still linked and
\* its driver data alive, the result r of ghostcat_device_commit, and the
\* signals of the resync
CommitRecord(req, r) ==
    [req |-> req, turn |-> ncalls, linked |-> linked, removed |-> ~drv_data,
     rc |-> r, resync |-> ResyncNeeded(r),
     signals |-> IF ResyncNeeded(r) THEN ghostcatd_device_resync ELSE {}]

\* a Commit method that commits before it replies, in its own dispatch
ghostcatd_device_commit_inline ==
    /\ linked
    /\ Commit
    /\ commits' = Append(commits, CommitRecord(Len(replies) + 1, ret'))
    /\ replies' = Append(replies, [value |-> 0, turn |-> ncalls])
    /\ UNCHANGED <<linked, refcount, lib_refcount, drv_data, tasks, aborted>>

\* a Commit method that hands the device to the task without a reference
ghostcatd_device_commit_unpinned ==
    /\ linked
    /\ tasks' = Append(tasks, Len(replies) + 1)
    /\ replies' = Append(replies, [value |-> 0, turn |-> ncalls])
    /\ UNCHANGED <<linked, refcount, lib_refcount, drv_data, commits, aborted>>
    /\ UNCHANGED libvars

\* ghostcatd_device_commit, the Commit bus method of a device found in the
\* registry: schedules ghostcatd_device_commit_pending with a new
\* reference to the device (ghostcatd_schedule_task defers it to the
\* reactor) and replies "u" 0
ghostcatd_device_commit ==
    /\ linked
    /\ tasks' = Append(tasks, Len(replies) + 1)
    /\ refcount' = refcount + 1
    /\ replies' = Append(replies, [value |-> 0, turn |-> ncalls])
    /\ UNCHANGED <<linked, lib_refcount, drv_data, commits, aborted>>
    /\ UNCHANGED libvars

\* a task that keeps the reference it was scheduled with
ghostcatd_device_commit_pending_leaky ==
    /\ tasks # <<>>
    /\ tasks' = Tail(tasks)
    /\ UNCHANGED <<linked, replies>>
    /\ Commit
    /\ commits' = Append(commits, CommitRecord(Head(tasks), ret'))
    /\ UNCHANGED <<refcount, lib_refcount, drv_data, aborted>>

\* ghostcatd_callback_handler running ghostcatd_device_commit_pending: the
\* library commit (test_commit and test_set_active_profile assert that the
\* driver data is still there), a resync when it failed, and the task's
\* reference dropped
ghostcatd_device_commit_pending ==
    /\ tasks # <<>>
    /\ tasks' = Tail(tasks)
    /\ UNCHANGED <<linked, replies>>
    /\ IF refcount = 0 \/ lib_refcount = 0
          \/ (driver = "test_driver" /\ ~drv_data)
       THEN /\ aborted' = TRUE
            /\ UNCHANGED <<refcount, lib_refcount, drv_data, commits>>
            /\ UNCHANGED libvars
       ELSE /\ Commit
            /\ commits' = Append(commits, CommitRecord(Head(tasks), ret'))
            /\ ghostcatd_device_unref(linked)

\* ghostcatd_process_device on a "remove" event for a known device:
\* ghostcatd_device_unlink, then the registry's reference is dropped
ghostcatd_process_device_remove ==
    /\ linked
    /\ linked' = FALSE
    /\ ghostcatd_device_unref(FALSE)
    /\ UNCHANGED <<tasks, replies, commits>>
    /\ UNCHANGED libvars

\* the bus setters reach the library while the device is in the registry
BusSetters ==
    /\ linked
    /\ UNCHANGED daemonvars
    /\ \/ \E p \in Profiles : ghostcat_profile_set_active(p)
       \/ \E p \in Profiles, hz \in RateInputs :
              ghostcat_profile_set_report_rate(p, hz)

\* one more reactor dispatch
Turn == ncalls < MaxTurns /\ ncalls' = ncalls + 1

\* SpecDaemon: up to MaxTurns dispatches of the daemon's reactor for one
\* device: Commit calls, deferred commit tasks, bus setters, and the
\* hot-plug removal of the device.
NextDaemon ==
    /\ UNCHANGED auxvars
    /\ Turn
    /\ \/ ghostcatd_device_commit
       \/ ghostcatd_device_commit_pending
       \/ ghostcatd_process_device_remove
       \/ BusSetters

SpecDaemon == Init /\ [][NextDaemon]_vars

(* ---------------- the daemon: writable bus properties ---------------- *)

\* the values written to the ReportRate property ("u"): the ends of the
\* range, their neighbours, a value inside and a very large one
BusRateInputs == {0, 124, 125, 1000, 8000, 8001, 2147483647}

\* a handler that passes the value on as it was written
ClampReportRate_none(rate) == rate

\* ghostcatd_profile_set_report_rate, the "basic sanity check"
ClampReportRate(rate) ==
    IF rate < 125 THEN 125 ELSE IF rate > 8000 THEN 8000 ELSE rate

\* ghostcatd_profile_set_report_rate: the property setter of ReportRate.
\* The value is clamped and handed to the library; when that returns 0 the
\* PropertiesChanged of ReportRate and, by ghostcatd_profile_notify_dirty,
\* of IsDirty are emitted. The handler returns 0.
ghostcatd_profile_set_report_rate(p, rate) ==
    /\ ghostcat_profile_set_report_rate(p, ClampReportRate(rate))
    /\ bus' = [name |-> "ReportRate", p |-> p, value |-> rate, rc |-> 0,
               signals |-> IF ret' = 0 THEN {"ReportRate", "IsDirty"}
                           ELSE {}]

\* SpecBus: clients write ReportRate on the profiles of a freshly probed
\* device, and the device is committed in between.
NextBus ==
    /\ UNCHANGED <<ncalls, daemonvars, macro, keycode, refs, reg, probe, hw, timers>>
    /\ \/ \E p \in Profiles, rate \in BusRateInputs :
              ghostcatd_profile_set_report_rate(p, rate)
       \/ Commit /\ UNCHANGED bus

SpecBus == Init /\ [][NextBus]_vars

(* ---------------- the daemon: the active-resolution poll ---------------- *)

\* what a driver's refresh_active_resolution may return: an errno, 0
\* (unchanged), 1 (changed), or another positive number
RefreshRcs == {-5, 0, 1, 2}

\* device->driver->refresh_active_resolution is set: neither the test
\* driver nor marsgaming has the hook, another driver may
HasRefreshHook(drv) == drv = "other"

\* the hook of a driver that has one: it re-reads the current DPI index r
\* of the active profile from the hardware, moves is_active to that
\* resolution and returns 1 when is_active moved; a failed or unchanged
\* read leaves the resolutions alone
refresh_active_resolution(rc, r) ==
    /\ \E p \in Profiles :
          /\ prof[p].is_active
          /\ (rc = 1) => ~res[<<p, r>>].is_active
          /\ res' = [x \in DOMAIN res |->
                        IF rc = 1 /\ x[1] = p
                        THEN [res[x] EXCEPT !.is_active = (x[2] = r)]
                        ELSE res[x]]
    /\ UNCHANGED <<prof, btn, led, op, ret, drvCalls>>
    /\ Device /\ History

\* a library that calls the hook without looking for it
ghostcat_device_refresh_active_resolution_unchecked(hook_rc) == hook_rc

\* ghostcat_device_refresh_active_resolution: 0 without a driver hook,
\* else what the hook returns
ghostcat_device_refresh_active_resolution(hook_rc) ==
    IF ~HasRefreshHook(driver) THEN 0 ELSE hook_rc

\* ghostcatd_device_poll_active_resolution, as on_poll_active_resolution
\* calls it for a device of the registry: the library refresh, and when it
\* reports a change (changed > 0) ghostcatd_profile_resync for every
\* profile; the result of the refresh is returned
ghostcatd_device_poll_active_resolution(hook_rc, r) ==
    LET changed == ghostcat_device_refresh_active_resolution(hook_rc) IN
    /\ linked
    /\ IF HasRefreshHook(driver)
       THEN refresh_active_resolution(hook_rc, r)
       ELSE UNCHANGED libvars
    /\ bus' = [name |-> "poll", p |-> NoOne, value |-> hook_rc,
               rc |-> changed,
               signals |-> IF changed > 0
                           THEN ghostcatd_for_each_profile_signal ELSE {}]

\* no bus request or timer event is the last thing handled
BusIdle == [name |-> "none", p |-> NoOne, value |-> 0, rc |-> 0,
            signals |-> {}]

\* SpecPoll: the poll timer fires for an attached device of any driver,
\* and clients set the active resolution and commit in between.
NextPoll ==
    /\ UNCHANGED <<ncalls, daemonvars, macro, keycode, refs, reg, probe, hw, timers>>
    /\ \/ \E hook_rc \in RefreshRcs, r \in Resolutions :
              ghostcatd_device_poll_active_resolution(hook_rc, r)
       \/ (\E x \in DOMAIN res : ghostcat_resolution_set_active(x))
              /\ bus' = BusIdle
       \/ Commit /\ bus' = BusIdle

SpecPoll == Init /\ [][NextPoll]_vars

\* SpecRefs: a client that owns a freshly created device takes and drops
\* handles to the device and to its profiles, resolutions, buttons and
\* LEDs, never dropping a handle it does not have.
NextRefs ==
    /\ UNCHANGED <<libvars, ncalls, daemonvars, bus, macro, keycode, reg, probe, hw, timers>>
    /\ \/ \E p \in 0 .. NumProfiles :
              \/ GetOrRef("device", NoOne, NoOne)
              \/ GetOrRef("profile", p, NoOne)
              \/ \E r \in 0 .. NumResolutions : GetOrRef("resolution", p, r)
              \/ \E b \in 0 .. NumButtons : GetOrRef("button", p, b)
              \/ \E l \in 0 .. NumLeds : GetOrRef("led", p, l)
       \/ \E e \in Entities : Unref(e)

SpecRefs == Init /\ [][NextRefs]_vars

\* SpecRegistry: hot-plug events for hidraw and other sysnames reach the
\* daemon in any order, clients call Commit on attached devices and the
\* reactor runs the commit tasks. The devices' own state plays no part
\* and is that of one freshly probed test device.
InitRegistry == Init /\ driver = "test_driver"

NextRegistry ==
    /\ UNCHANGED <<libvars, ncalls, daemonvars, bus, macro, keycode, refs, probe, hw, timers>>
    /\ \/ \E action \in {"add", "remove"},
             sysname \in Sysnames \cup OtherSysnames,
             construction \in Constructions :
              ghostcatd_process_device(action, sysname, construction)
       \/ \E sysname \in Sysnames : RegistryCommit(sysname)
       \/ RegistryCommitPending

SpecRegistry == InitRegistry /\ [][NextRegistry]_vars

\* SpecProbe: one device is created from a test description or from a
\* marsgaming mouse, and an accepted device is released later.
NextProbe ==
    /\ UNCHANGED <<libvars, ncalls, daemonvars, bus, macro, keycode, refs, reg, hw, timers>>
    /\ \/ \E desc \in ProbeDescriptions : ghostcat_device_new_test_device(desc)
       \/ \E rc \in ProbeRcs : ghostcat_device_new_from_udev_device(rc)
       \/ ProbedDeviceUnref

SpecProbe == Init /\ [][NextProbe]_vars

(* ---------------- the daemon: bus methods ---------------- *)

\* ghostcatd_profile_set_active, the SetActive method of a profile: the
\* library call; when it fails (r < 0) ghostcatd_device_resync, whose
\* failure alone ends the method with an error; then IsActive of every
\* profile and IsDirty of this one are signalled and the reply "u" 0 is
\* sent
ghostcatd_profile_set_active(p) ==
    /\ ghostcat_profile_set_active(p)
    /\ bus' = IF ret' < 0 /\ sd_bus_emit < 0
              THEN [name |-> "SetActive", p |-> p, value |-> NoOne,
                    rc |-> sd_bus_emit, signals |-> ghostcatd_device_resync]
              ELSE [name |-> "SetActive", p |-> p, value |-> 0, rc |-> 0,
                    signals |->
                        (IF ret' < 0 THEN ghostcatd_device_resync ELSE {})
                        \cup {<<"IsActive", q, NoOne>> : q \in Profiles}
                        \cup {<<"IsDirty", p, NoOne>>}]

\* SpecMethods: clients call SetActive on profiles and Commit on the
\* device, enable and disable profiles, and the reactor runs the commit
\* tasks; at most MaxTurns Commit calls are made.
NextMethods ==
    /\ UNCHANGED <<ncalls, macro, keycode, refs, reg, probe, hw, timers>>
    /\ \/ (\E p \in Profiles : ghostcatd_profile_set_active(p))
              /\ UNCHANGED daemonvars
       \/ (\E p \in Profiles, en \in BOOLEAN :
               ghostcat_profile_set_enabled(p, en))
              /\ bus' = BusIdle /\ UNCHANGED daemonvars
       \/ /\ Len(replies) < MaxTurns
          /\ ghostcatd_device_commit
          /\ bus' = [name |-> "Commit", p |-> NoOne, value |-> 0, rc |-> 0,
                     signals |-> {}]
       \/ ghostcatd_device_commit_pending /\ bus' = BusIdle

SpecMethods == Init /\ [][NextMethods]_vars

(* ---------------- macros and key codes ---------------- *)

\* longest macro a client builds event by event
MaxMacroLen == 3

MAX_MACRO_EVENTS == 256
EINVAL == 22
KEY_RESERVED == 0

\* ghostcat_modifier_mapping[]: MODIFIER_LEFTCTRL .. MODIFIER_RIGHTMETA
\* with KEY_LEFTCTRL, KEY_LEFTSHIFT, KEY_LEFTALT, KEY_LEFTMETA,
\* KEY_RIGHTCTRL, KEY_RIGHTSHIFT, KEY_RIGHTALT, KEY_RIGHTMETA
ghostcat_modifier_mapping ==
    << [modifier_mask |-> 1, key |-> 29], [modifier_mask |-> 2, key |-> 42],
       [modifier_mask |-> 4, key |-> 56], [modifier_mask |-> 8, key |-> 125],
       [modifier_mask |-> 16, key |-> 97], [modifier_mask |-> 32, key |-> 54],
       [modifier_mask |-> 64, key |-> 100],
       [modifier_mask |-> 128, key |-> 126] >>

ModifierKeys == {ghostcat_modifier_mapping[i].key :
                    i \in DOMAIN ghostcat_modifier_mapping}

\* modifiers & mask, modifiers |= mask, modifiers &= ~mask for a one-bit mask
HasBit(modifiers, mask) == (modifiers \div mask) % 2 = 1
SetBit(modifiers, mask) ==
    IF HasBit(modifiers, mask) THEN modifiers ELSE modifiers + mask
ClearBit(modifiers, mask) ==
    IF HasBit(modifiers, mask) THEN modifiers - mask ELSE modifiers

\* ghostcat_key_is_modifier: the key is one of the eight modifier keys
ghostcat_key_is_modifier(key) == key \in ModifierKeys

\* a struct ghostcat_macro_event; data is the union of key and timeout
Event(type, data) == [type |-> type, data |-> data]

\* macro->events[i] of a macro whose first events are ev: the buffer is
\* zeroed when it is allocated, the rest is GHOSTCAT_MACRO_EVENT_NONE
EventAt(ev, i) == IF i < Len(ev) THEN ev[i + 1] ELSE Event("none", 0)

\* a macro of key that releases nothing
ghostcat_button_macro_new_from_keycode_pressed(key, modifiers) ==
    LET set == SelectSeq(ghostcat_modifier_mapping,
                         LAMBDA e : HasBit(modifiers, e.modifier_mask))
    IN [i \in 1 .. Len(set) |-> Event("pressed", set[i].key)]
       \o << Event("pressed", key) >>

\* ghostcat_button_macro_new_from_keycode: the events of the macro built
\* for key with the modifiers of the mask
ghostcat_button_macro_new_from_keycode(key, modifiers) ==
    LET set == SelectSeq(ghostcat_modifier_mapping,
                         LAMBDA e : HasBit(modifiers, e.modifier_mask))
    IN [i \in 1 .. Len(set) |-> Event("pressed", set[i].key)]
       \o << Event("pressed", key), Event("released", key) >>
       \o [i \in 1 .. Len(set) |-> Event("released", set[i].key)]

\* the indices the counting loops look at: up to the first event that is
\* GHOSTCAT_MACRO_EVENT_NONE or GHOSTCAT_MACRO_EVENT_INVALID
Counted(ev) ==
    {i \in 0 .. (MAX_MACRO_EVENTS - 1) :
        /\ i < Len(ev)
        /\ \A j \in 0 .. i : EventAt(ev, j).type \notin {"none", "invalid"}}

\* ghostcat_action_macro_num_keys
ghostcat_action_macro_num_keys(ev) ==
    Cardinality({i \in Counted(ev) :
        /\ ~ghostcat_key_is_modifier(EventAt(ev, i).data)
        /\ EventAt(ev, i).type = "pressed"})

\* a decoder that knows no lone modifier
ghostcat_action_is_single_modifier_key_never(ev) == FALSE

\* ghostcat_action_is_single_modifier_key
ghostcat_action_is_single_modifier_key(ev) ==
    LET modifier_key_count == Cardinality({i \in Counted(ev) :
            /\ ghostcat_key_is_modifier(EventAt(ev, i).data)
            /\ EventAt(ev, i).type = "pressed"})
        action_key_count == Cardinality({i \in Counted(ev) :
            /\ ~ghostcat_key_is_modifier(EventAt(ev, i).data)
            /\ EventAt(ev, i).type = "pressed"})
    IN modifier_key_count = 1 /\ action_key_count = 0

\* a result of the decoder; key_out and modifiers_out are written with
\* the result 1 only
Decoded(rc, key, modifiers) ==
    [called |-> TRUE, rc |-> rc, key |-> key, modifiers |-> modifiers]

\* ghostcat_action_keycode_from_macro, the loop from event i on
RECURSIVE keycode_from_macro_loop(_, _, _, _)
keycode_from_macro_loop(ev, i, key, modifiers) ==
    IF i >= MAX_MACRO_EVENTS THEN Decoded(0 - EINVAL, NoOne, NoOne)
    ELSE
    LET event == EventAt(ev, i)
        mapped == {j \in DOMAIN ghostcat_modifier_mapping :
                      ghostcat_modifier_mapping[j].key = event.data}
        mask == ghostcat_modifier_mapping[CHOOSE j \in mapped : TRUE].modifier_mask
    IN CASE event.type = "invalid" -> Decoded(0 - EINVAL, NoOne, NoOne)
         [] event.type = "none" -> Decoded(0, NoOne, NoOne)
         [] event.type = "pressed" ->
              IF mapped # {}
              THEN keycode_from_macro_loop(ev, i + 1, key, SetBit(modifiers, mask))
              ELSE IF key # KEY_RESERVED
              THEN Decoded(0 - EINVAL, NoOne, NoOne)
              ELSE keycode_from_macro_loop(ev, i + 1, event.data, modifiers)
         [] event.type = "released" ->
              IF mapped # {}
              THEN keycode_from_macro_loop(ev, i + 1, key, ClearBit(modifiers, mask))
              ELSE IF event.data # key
              THEN Decoded(0 - EINVAL, NoOne, NoOne)
              ELSE Decoded(1, key, modifiers)
         [] event.type = "wait" ->
              keycode_from_macro_loop(ev, i + 1, key, modifiers)
         [] OTHER -> Decoded(0 - EINVAL, NoOne, NoOne)

\* ghostcat_action_keycode_from_macro on an action whose macro is m
ghostcat_action_keycode_from_macro(m) ==
    IF ~m.set THEN Decoded(0 - EINVAL, NoOne, NoOne)
    ELSE IF EventAt(m.events, 0).type = "none"
    THEN Decoded(0 - EINVAL, NoOne, NoOne)
    ELSE IF ghostcat_action_is_single_modifier_key(m.events)
    THEN Decoded(1, EventAt(m.events, 0).data, 0)
    ELSE IF ghostcat_action_macro_num_keys(m.events) # 1
    THEN Decoded(0 - EINVAL, NoOne, NoOne)
    ELSE keycode_from_macro_loop(m.events, 0, KEY_RESERVED, 0)

\* the keys, modifier masks and events the clients of SpecMacro use:
\* KEY_RESERVED, KEY_LEFTCTRL, KEY_A, KEY_B; every mask; presses and
\* releases of two modifiers and two other keys, and waits
KeyInputs == {0, 29, 30, 48}
ModifierMasks == 0 .. 255
EventInputs ==
    {Event(t, k) : t \in {"pressed", "released"}, k \in {29, 42, 30, 48}}
    \cup {Event("wait", ms) : ms \in {29, 500}}
MacroInputs ==
    UNION {[1 .. n -> EventInputs] : n \in 0 .. MaxMacroLen}

NoKeycode == [called |-> FALSE, rc |-> 0, key |-> NoOne, modifiers |-> NoOne]

\* ghostcat_button_macro_new_from_keycode with ghostcat_button_copy_macro
MacroNewFromKeycode(key, modifiers) ==
    /\ ~macro.set
    /\ macro' = [set |-> TRUE,
                 events |-> ghostcat_button_macro_new_from_keycode(key, modifiers),
                 encoded |-> <<key, modifiers>>]
    /\ keycode' = NoKeycode

\* ghostcat_button_macro_set_event for each event of ev on a new macro,
\* then ghostcat_button_set_macro
MacroSet(ev) ==
    /\ ~macro.set
    /\ macro' = [set |-> TRUE, events |-> ev, encoded |-> <<>>]
    /\ keycode' = NoKeycode

\* a call of ghostcat_action_keycode_from_macro on the button's action
MacroDecode ==
    /\ keycode' = ghostcat_action_keycode_from_macro(macro)
    /\ UNCHANGED macro

\* SpecMacro: a button that has no macro yet is given one, built from a
\* key code or event by event, and the macro is decoded.
NextMacro ==
    /\ UNCHANGED <<libvars, ncalls, daemonvars, bus, refs, reg, probe, hw, timers>>
    /\ \/ \E key \in KeyInputs, modifiers \in ModifierMasks :
              MacroNewFromKeycode(key, modifiers)
       \/ \E ev \in MacroInputs : MacroSet(ev)
       \/ MacroDecode

SpecMacro == Init /\ [][NextMacro]_vars

(* ---------------- buttons and their macros ---------------- *)

\* the macros clients store on buttons in SpecButton
ButtonMacros ==
    {<<Event("pressed", k), Event("released", k)>> : k \in {30, 48}}

\* SpecButton: clients assign buttons, special actions, keys and macros
\* to the buttons of a freshly probed device and disable them, in any
\* order.
NextButton ==
    /\ UNCHANGED <<ncalls, daemonvars>>
    /\ UNCHANGED auxvars
    /\ \/ ButtonSetters
       \/ \E x \in DOMAIN btn, ev \in ButtonMacros :
              ghostcat_button_set_macro(x, ev)

SpecButton == Init /\ [][NextButton]_vars

(* ---------------- what a commit sends to the mouse ---------------- *)

\* most calls a client makes in SpecCommit
MaxCommitCalls == 4

\* SpecCommit: a client makes up to MaxCommitCalls calls: it switches the
\* active profile, changes a report rate, a resolution, a button and an
\* LED, and commits; the commands of every commit are recorded in hw.
NextCommit ==
    /\ UNCHANGED <<daemonvars, bus, macro, keycode, refs, reg, probe, timers>>
    /\ ncalls < MaxCommitCalls /\ ncalls' = ncalls + 1
    /\ \/ /\ \/ \E p \in Profiles : ghostcat_profile_set_active(p)
             \/ \E p \in Profiles, hz \in RateInputs :
                    ghostcat_profile_set_report_rate(p, hz)
             \/ \E x \in DOMAIN res, dpi \in DpiInputs :
                    ghostcat_resolution_set_dpi(x, dpi)
             \/ \E x \in DOMAIN btn : ghostcat_button_disable(x)
             \/ \E x \in DOMAIN led, m \in LedModeInputs :
                    ghostcat_led_set_mode(x, m)
             \/ HardwareSwitch
          /\ hw' = NoWrites
       \/ \E commit_rc \in CommitRcs(driver),
             sap_rc \in SetActiveProfileRcs(driver) :
              ghostcat_device_commit_writes(commit_rc, sap_rc)

SpecCommit == Init /\ [][NextCommit]_vars

(* ---------------- the daemon: the poll timer ---------------- *)

\* seconds the reactor may be late in dispatching a due timer
MaxLate == 2

\* one second of the monotonic clock, in microseconds
USEC_PER_SEC == 1000000

POLL_INTERVAL_USEC == 2 * 1000000

\* ghostcatd_run: the poll source is added, due POLL_INTERVAL_USEC from
\* now, and the event loop starts
ghostcatd_run ==
    /\ ~timers.running
    /\ timers' = [NotATick(timers) EXCEPT
                    !.running = TRUE,
                    !.sources = Append(@, POLL_INTERVAL_USEC)]
    /\ UNCHANGED reg

\* the monotonic clock advances by a second; the reactor lets no armed
\* source be overdue by more than MaxLate seconds
ClockAdvance ==
    /\ timers.running
    /\ \A i \in DOMAIN timers.sources :
           timers.sources[i] > 0 - MaxLate * USEC_PER_SEC
    /\ timers' = [NotATick(timers) EXCEPT
                    !.sources = [i \in DOMAIN @ |-> @[i] - USEC_PER_SEC]]
    /\ UNCHANGED reg

\* a callback that re-arms the timer relative to the deadline it was
\* dispatched for
NextPollTime_from_deadline(now, usec) == usec + POLL_INTERVAL_USEC

\* the time on_poll_active_resolution re-arms its source for: now is
\* sd_event_now, usec the deadline the callback was dispatched for
NextPollTime(now, usec) == now + POLL_INTERVAL_USEC

\* the sequence s without its element i
RemoveAt(s, i) == SubSeq(s, 1, i - 1) \o SubSeq(s, i + 1, Len(s))

\* on_poll_active_resolution, dispatched for the due one-shot source i,
\* which the reactor has switched off: every device of the registry is
\* polled, then the source is given a new time and enabled again
on_poll_active_resolution(i) ==
    /\ timers.running
    /\ i \in DOMAIN timers.sources
    /\ timers.sources[i] <= 0
    /\ timers' = [timers EXCEPT
                    !.tick = TRUE,
                    !.polled = GHOSTCATD_DEVICE_FOREACH(reg),
                    !.sources = Append(RemoveAt(@, i),
                                       NextPollTime(0, timers.sources[i]))]
    /\ UNCHANGED reg

\* what no handler of SpecTimer touches
TimerFrame ==
    UNCHANGED <<libvars, ncalls, daemonvars, bus, macro, keycode, refs, probe, hw>>

\* a second passes
ClockStep == TimerFrame /\ ClockAdvance

\* the reactor dispatches a due poll source
PollTick == TimerFrame /\ \E i \in 1 .. 2 : on_poll_active_resolution(i)

\* SpecTimer: the daemon starts its event loop, time passes, the poll
\* timer fires, and devices are plugged and unplugged in between. The
\* reactor is fair to the clock and to a due timer source.
NextTimer ==
    \/ TimerFrame /\ ghostcatd_run
    \/ ClockStep
    \/ PollTick
    \/ /\ TimerFrame
       /\ \E action \in {"add", "remove"}, sysname \in Sysnames :
              ghostcatd_process_device(action, sysname, "ok")
       /\ timers' = NotATick(timers)

FairTimer == WF_vars(ClockStep) /\ WF_vars(PollTick)

SpecTimer == InitRegistry /\ [][NextTimer]_vars /\ FairTimer

(* ---------------- the daemon: deferred tasks under a fair reactor ---------------- *)

\* what no handler of SpecDefer touches
DeferFrame == UNCHANGED <<ncalls, auxvars>>

\* most Commit calls clients make in SpecDefer
MaxDeferred == 3

\* a client calls Commit, at most MaxDeferred times
DeferCommit ==
    DeferFrame /\ Len(replies) < MaxDeferred /\ ghostcatd_device_commit

\* the reactor dispatches the oldest deferred task
DeferRun == DeferFrame /\ ghostcatd_device_commit_pending

\* SpecDefer: clients call Commit and switch the active profile, the device may be
\* unplugged, and the reactor runs the deferred tasks; it is fair to an
\* enabled defer source.
NextDefer ==
    \/ DeferCommit
    \/ DeferRun
    \/ DeferFrame /\ ghostcatd_process_device_remove
    \/ /\ DeferFrame
       /\ linked
       /\ UNCHANGED daemonvars
       /\ \E p \in Profiles : ghostcat_profile_set_active(p)

FairDefer == WF_vars(DeferRun)

SpecDefer == Init /\ [][NextDefer]_vars /\ FairDefer

(* ---------------- the daemon: hot-plug, commits and shutdown ---------------- *)

\* SpecShutdown: the events of SpecRegistry until the daemon shuts down.
NextShutdown ==
    /\ UNCHANGED <<libvars, ncalls, daemonvars, bus, macro, keycode, refs, probe, hw, timers>>
    /\ \/ /\ ~Stopped(reg)
          /\ \E action \in {"add", "remove"},
                sysname \in Sysnames \cup OtherSysnames,
                construction \in Constructions :
                 ghostcatd_process_device(action, sysname, construction)
       \/ ~Stopped(reg) /\ \E sysname \in Sysnames : RegistryCommit(sysname)
       \/ ~Stopped(reg) /\ RegistryCommitPending
       \/ ghostcatd_free

SpecShutdown == InitRegistry /\ [][NextShutdown]_vars

(* ---------------- properties ---------------- *)

Range(f) == {f[i] : i \in DOMAIN f}

\* every dirty flag of the device is false
NoDirtyFlag ==
    /\ \A p \in Profiles :
          /\ ~prof[p].dirty /\ ~prof[p].rate_dirty
          /\ ~prof[p].angle_snapping_dirty /\ ~prof[p].debounce_dirty
          /\ ~prof[p].is_active_dirty
    /\ \A x \in DOMAIN res : ~res[x].dirty
    /\ \A x \in DOMAIN btn : ~btn[x].dirty
    /\ \A x \in DOMAIN led : ~led[x].dirty

\* C1: after any sequence of setter calls followed by a
\* ghostcat_device_commit that returns success, every dirty flag of the
\* device is false: the profiles' dirty, rate_dirty, angle_snapping_dirty,
\* debounce_dirty and is_active_dirty, and the dirty flag of every
\* resolution, button and LED.
C1_CommitClearsEveryDirtyFlag ==
    (op.name = "device_commit" /\ ret = GHOSTCAT_SUCCESS) => NoDirtyFlag

\* C1 happens: a successful commit that found an active-profile change to
\* apply (set_active had marked the profiles) as the last of MaxCalls calls
C1_Witness ==
    /\ op.name = "device_commit" /\ ret = GHOSTCAT_SUCCESS
    /\ <<"set_active_profile", 1>> \in Range(drvCalls)
    /\ ncalls = MaxCalls
    /\ NoDirtyFlag

\* the resolutions of profile p that have the status bit
Holders(p, bit) == {r \in Resolutions : res[<<p, r>>][bit]}
StatusBits == {"is_active", "is_default", "is_dpi_shift_target"}
BitOfSetter ==
    [resolution_set_active |-> "is_active",
     resolution_set_default |-> "is_default",
     resolution_set_dpi_shift_target |-> "is_dpi_shift_target"]

\* C2: in every profile at most one resolution is active, at most one is
\* the default and at most one is the DPI shift target, and after a
\* successful set_active / set_default / set_dpi_shift_target the target
\* is the one resolution of its profile that has the bit.
C2_OneResolutionPerBit ==
    /\ \A p \in Profiles, bit \in StatusBits :
          Cardinality(Holders(p, bit)) <= 1
    /\ (op.name \in DOMAIN BitOfSetter /\ ret = GHOSTCAT_SUCCESS) =>
          Holders(op.p, BitOfSetter[op.name]) = {op.i}

\* C2 happens: set_dpi_shift_target on resolution 0 of profile 0, then a
\* successful set_dpi_shift_target on resolution 1, which has taken the
\* bit from resolution 0: no other two calls leave resolution 0, which
\* cannot be disabled, dirty without a status bit
C2_Witness ==
    /\ ncalls = 2
    /\ op = Call("resolution_set_dpi_shift_target", 0, 1, 0, 0)
    /\ ret = GHOSTCAT_SUCCESS
    /\ res[<<0, 0>>].dirty /\ ~res[<<0, 0>>].is_dpi_shift_target
    /\ ~res[<<0, 0>>].cap_disable /\ ~res[<<0, 0>>].is_active
    /\ ~res[<<0, 0>>].is_default
    /\ res[<<0, 1>>].is_dpi_shift_target

\* C3: set_active, set_default or set_dpi_shift_target on a disabled
\* resolution returns GHOSTCAT_ERROR_VALUE and changes no resolution and no
\* profile (no status bit, no dirty flag).
C3_DisabledTargetRefused ==
    [][(op'.name \in DOMAIN BitOfSetter /\ res[<<op'.p, op'.i>>].is_disabled)
           => (ret' = GHOSTCAT_ERROR_VALUE /\ res' = res /\ prof' = prof
               /\ btn' = btn /\ led' = led)]_vars

\* C3 happens: set_default was refused on a disabled resolution
C3_Witness ==
    /\ op.name = "resolution_set_default"
    /\ ret = GHOSTCAT_ERROR_VALUE
    /\ res[<<op.p, op.i>>].is_disabled

C5_ExactlyOneActiveProfile ==
    Cardinality({p \in Profiles : prof[p].is_active}) = 1

\* C5 happens: a commit failed after a successful set_active that it did
\* not get applied, and still exactly one profile is active
C5_Witness ==
    /\ op.name = "device_commit" /\ ret # GHOSTCAT_SUCCESS
    /\ requested # NoOne
    /\ \E p \in Profiles : ~prof[p].is_enabled
    /\ Cardinality({p \in Profiles : prof[p].is_active}) = 1

\* C6: set_enabled(profile, false) on the active profile, which has the
\* capability to be disabled, returns GHOSTCAT_ERROR_VALUE and leaves
\* is_enabled and every dirty flag as they were.
C6_ActiveProfileStaysEnabled ==
    [][\A p \in Profiles :
           (op' = Call("profile_set_enabled", p, NoOne, 0, 0)
            /\ prof[p].is_active /\ prof[p].cap_disable)
           => (ret' = GHOSTCAT_ERROR_VALUE /\ prof' = prof /\ res' = res
               /\ btn' = btn /\ led' = led)]_vars

\* C6 happens: disabling the active profile was refused
C6_Witness ==
    /\ op.name = "profile_set_enabled" /\ op.a = 0
    /\ ret = GHOSTCAT_ERROR_VALUE
    /\ prof[op.p].is_active /\ prof[op.p].cap_disable /\ prof[op.p].is_enabled

\* C7: set_enabled(p, false) on the only enabled profile (which has the
\* capability to be disabled) is refused with GHOSTCAT_ERROR_VALUE, and
\* the profile stays enabled.
C7_LastEnabledProfileKept ==
    [][\A p \in Profiles :
           (op' = Call("profile_set_enabled", p, NoOne, 0, 0)
            /\ prof[p].is_enabled /\ prof[p].cap_disable
            /\ \A q \in Profiles \ {p} : ~prof[q].is_enabled)
           => (ret' = GHOSTCAT_ERROR_VALUE /\ prof'[p].is_enabled)]_vars

\* C8: when a commit returns success after a successful set_active(p)
\* that no successful commit had followed yet, the driver's
\* set_active_profile was invoked with p during that commit and p is the
\* active profile.
C8_ActiveProfileApplied ==
    (op.name = "device_commit" /\ ret = GHOSTCAT_SUCCESS /\ applied # NoOne)
        => /\ <<"set_active_profile", applied>> \in Range(drvCalls)
           /\ prof[applied].is_active

\* C9: the driver commit of a Commit request runs in a later reactor
\* dispatch than the one that replied 0 to the request, and a request
\* that has been replied to is either still scheduled or has been run by
\* a task.
C9_CommitIsDeferred ==
    /\ \A i \in DOMAIN commits :
          /\ commits[i].req \in DOMAIN replies
          /\ replies[commits[i].req].turn < commits[i].turn
    /\ \A r \in DOMAIN replies :
          /\ replies[r].value = 0
          /\ r \in Range(tasks) \/ \E i \in DOMAIN commits : commits[i].req = r

\* C9 happens: a request was replied to and a task has run the driver's
\* commit for it
C9_Witness ==
    /\ Len(replies) = 2
    /\ \E i \in DOMAIN commits : commits[i].req = 2
    /\ tasks = <<>>

\* C10: while a Commit task is pending the device is neither freed nor
\* destroyed and the driver's remove has not run; the driver's commit has
\* only ever run before remove; no assertion has failed.
C10_TaskPinsDevice ==
    /\ ~aborted
    /\ tasks # <<>> => refcount >= Len(tasks) /\ lib_refcount > 0 /\ drv_data
    /\ \A i \in DOMAIN commits : ~commits[i].removed
    /\ lib_refcount = 0 => ~linked /\ refcount = 0

\* C10 happens: the test device was removed while a task was pending, the
\* task then committed on the unlinked device, and its unref destroyed it
C10_Witness ==
    /\ driver = "test_driver"
    /\ \E i \in DOMAIN commits : ~commits[i].linked
    /\ op.name = "device_commit"
    /\ refcount = 0 /\ lib_refcount = 0 /\ ~drv_data /\ ~aborted

\* the signals a resync owes: one for every resolution, button and LED of
\* every profile
ChildSignals ==
    {<<"resolution", x[1], x[2]>> : x \in DOMAIN res}
    \cup {<<"button", x[1], x[2]>> : x \in DOMAIN btn}
    \cup {<<"led", x[1], x[2]>> : x \in DOMAIN led}

C12_CleanAfterFailedCommit ==
    (op.name = "device_commit" /\ ret # GHOSTCAT_SUCCESS
     /\ commits # <<>> /\ commits[Len(commits)].resync)
        => \A p \in Profiles : ~prof[p].dirty

\* the dirty flags of the object graph, each under a name of its own
DirtyFlags(pf, rs, bt, ld) ==
    {<<"profile", p, NoOne>> : p \in {q \in Profiles : pf[q].dirty}}
    \cup {<<"is_active", p, NoOne>> :
            p \in {q \in Profiles : pf[q].is_active_dirty}}
    \cup {<<"rate", p, NoOne>> : p \in {q \in Profiles : pf[q].rate_dirty}}
    \cup {<<"angle_snapping", p, NoOne>> :
            p \in {q \in Profiles : pf[q].angle_snapping_dirty}}
    \cup {<<"debounce", p, NoOne>> :
            p \in {q \in Profiles : pf[q].debounce_dirty}}
    \cup {<<"resolution", x[1], x[2]>> : x \in {y \in DOMAIN rs : rs[y].dirty}}
    \cup {<<"button", x[1], x[2]>> : x \in {y \in DOMAIN bt : bt[y].dirty}}
    \cup {<<"led", x[1], x[2]>> : x \in {y \in DOMAIN ld : ld[y].dirty}}

\* C13: no write is lost around a commit: a dirty flag set by a setter
\* stays set until a driver commit that starts after the setter has
\* succeeded, and that commit sees the value written (for a requested
\* profile switch: the commit passes the requested profile to the driver
\* and leaves it the active one).
C13_NoWriteLost ==
    [][LET cleared == DirtyFlags(prof, res, btn, led)
                          \ DirtyFlags(prof', res', btn', led')
       IN cleared # {} =>
            /\ Len(commits') = Len(commits) + 1
            /\ drvCalls'[1] = <<"commit">>
            /\ ~(ret' = GHOSTCAT_ERROR_DEVICE /\ Len(drvCalls') = 1)
            /\ requested # NoOne =>
                  /\ <<"set_active_profile", requested>> \in Range(drvCalls')
                  /\ prof'[requested].is_active]_vars

\* C14: ghostcat_device_commit clears the dirty flags all or nothing: when
\* it returns success every dirty flag is false, and when it returns an
\* error no dirty flag of any profile, resolution, button or LED has been
\* cleared.
C14_CommitClearsAtomically ==
    [][op'.name = "device_commit" =>
            /\ ret' = GHOSTCAT_SUCCESS => NoDirtyFlag'
            /\ ret' # GHOSTCAT_SUCCESS =>
                  DirtyFlags(prof, res, btn, led)
                      \subseteq DirtyFlags(prof', res', btn', led')]_vars

\* C15: when ghostcat_resolution_set_active, _set_default or
\* _set_dpi_shift_target succeeds and clears its bit on a sibling
\* resolution, the sibling's dirty flag is set, and so are the target's
\* and the profile's.
C15_SiblingLosingBitIsDirty ==
    [][\A y \in DOMAIN res :
         (/\ ret' = GHOSTCAT_SUCCESS
          /\ y # <<op'.p, op'.i>>
          /\ \/ /\ op'.name = "resolution_set_active"
                /\ res[y].is_active /\ ~res'[y].is_active
             \/ /\ op'.name = "resolution_set_default"
                /\ res[y].is_default /\ ~res'[y].is_default
             \/ /\ op'.name = "resolution_set_dpi_shift_target"
                /\ res[y].is_dpi_shift_target /\ ~res'[y].is_dpi_shift_target)
         => /\ res'[y].dirty
            /\ res'[<<op'.p, op'.i>>].dirty
            /\ prof'[op'.p].dirty]_vars

\* the object graph without its dirty flags: the values the setters write
Values(pf, rs, bt, ld) ==
    <<[p \in Profiles |->
          [pf[p] EXCEPT !.dirty = FALSE, !.is_active_dirty = FALSE,
                        !.rate_dirty = FALSE, !.angle_snapping_dirty = FALSE,
                        !.debounce_dirty = FALSE]],
      [x \in DOMAIN rs |-> [rs[x] EXCEPT !.dirty = FALSE]],
      [x \in DOMAIN bt |-> [bt[x] EXCEPT !.dirty = FALSE]],
      [x \in DOMAIN ld |-> [ld[x] EXCEPT !.dirty = FALSE]]>>

\* the setters of a value: every setter but ghostcat_profile_set_active
ValueSetters ==
    {"profile_set_enabled", "profile_set_name", "profile_set_report_rate",
     "profile_set_angle_snapping", "profile_set_debounce",
     "resolution_set_dpi", "resolution_set_dpi_xy", "resolution_set_active",
     "resolution_set_default", "resolution_set_dpi_shift_target",
     "resolution_set_disabled", "button_set_button", "button_set_special",
     "button_set_key", "button_disable", "led_set_mode", "led_set_color",
     "led_set_effect_duration", "led_set_brightness"}

\* the steps that are a call of one of these setters
SetterCall == ncalls' = ncalls + 1 /\ op'.name \in ValueSetters

\* C16: a setter called with the value the object already has skips the
\* update and changes no dirty flag, whichever setter it is.
C16_SameValueChangesNoDirtyFlag ==
    [][(SetterCall /\ Values(prof', res', btn', led') = Values(prof, res, btn, led))
          => DirtyFlags(prof', res', btn', led') = DirtyFlags(prof, res, btn, led)]_vars

\* C17: a setter that returns an error (GHOSTCAT_ERROR_CAPABILITY or
\* GHOSTCAT_ERROR_VALUE) leaves the whole object graph as it was: no value
\* and no dirty flag of any profile, resolution, button or LED changes.
C17_FailedSetterChangesNothing ==
    [][(/\ ncalls' = ncalls + 1
        /\ op'.name \in ValueSetters \cup {"profile_set_active"}
        /\ ret' \in {GHOSTCAT_ERROR_CAPABILITY, GHOSTCAT_ERROR_VALUE})
          => UNCHANGED <<prof, res, btn, led>>]_vars

\* C17 happens: on a device with a dirty flag set, a resolution that can
\* be disabled is the active one, and disabling it has been refused
C17_Witness ==
    /\ op.name = "resolution_set_disabled" /\ ret = GHOSTCAT_ERROR_VALUE
    /\ res[<<op.p, op.i>>].cap_disable
    /\ res[<<op.p, op.i>>].is_active /\ ~res[<<op.p, op.i>>].is_disabled
    /\ ~NoDirtyFlag

\* the capability the call recorded in o needs, looked up in the object
\* graph as it is before the call
HasCapabilityFor(o) ==
    LET x == <<o.p, o.i>> IN
    CASE o.name = "resolution_set_dpi_xy" -> res[x].cap_separate_xy
      [] o.name = "resolution_set_disabled" -> res[x].cap_disable
      [] o.name = "profile_set_enabled" -> prof[o.p].cap_disable
      [] o.name = "button_set_button" -> "button" \in btn[x].action_caps
      [] o.name = "button_set_special" -> "special" \in btn[x].action_caps
      [] o.name = "button_set_key" -> "key" \in btn[x].action_caps
      [] o.name = "button_disable" -> "none" \in btn[x].action_caps
      [] o.name = "led_set_mode" ->
            \E m \in led[x].modes : ghostcat_led_mode[m] = o.a
      [] OTHER -> TRUE

\* C18: a setter validates the capability before the value: an operation
\* the object does not support fails with GHOSTCAT_ERROR_CAPABILITY
\* whatever the argument (set_dpi_xy without the separate-xy capability,
\* resolution set_disabled and profile set_enabled without the disable
\* capability, a button setter without the action type, LED set_mode with
\* a mode outside the LED's modes), and GHOSTCAT_ERROR_VALUE is returned
\* only when the capability is there.
C18_CapabilityBeforeValue ==
    [][(ncalls' = ncalls + 1 /\ op'.name \in ValueSetters) =>
          /\ ~HasCapabilityFor(op') => ret' = GHOSTCAT_ERROR_CAPABILITY
          /\ ret' = GHOSTCAT_ERROR_VALUE => HasCapabilityFor(op')]_vars

\* what C19 promises of resolution x
DpiValid(x) ==
    /\ res[x].dpi_x \in res[x].dpis /\ res[x].dpi_y \in res[x].dpis
    /\ res[x].cap_separate_xy \/ res[x].dpi_x = res[x].dpi_y
    /\ (res[x].dpi_x = 0) <=> (res[x].dpi_y = 0)

\* the DPI values the probe left on resolution x lie in its list
ProbedInList(x) ==
    probed[x][1] \in res[x].dpis /\ probed[x][2] \in res[x].dpis

\* resolution x has been the target of the last set_dpi / set_dpi_xy call
DpiSetterCalled(x) ==
    /\ op.name \in {"resolution_set_dpi", "resolution_set_dpi_xy"}
    /\ x = <<op.p, op.i>>

C20_ZeroZeroDisables ==
    \A x \in DOMAIN res :
        (/\ op.name = "resolution_set_dpi_xy" /\ x = <<op.p, op.i>>
         /\ res[x].cap_separate_xy) =>
            /\ (op.a = 0 /\ op.b = 0) =>
                  /\ ret = GHOSTCAT_SUCCESS
                  /\ res[x].dpi_x = 0 /\ res[x].dpi_y = 0
            /\ ((op.a = 0) # (op.b = 0)) => ret = GHOSTCAT_ERROR_VALUE

\* C21: every unsigned 32-bit value r written to the ReportRate property
\* is accepted, the profile's report rate becomes min(max(r, 125), 8000),
\* a PropertiesChanged for ReportRate is emitted, and when the clamped
\* value differs from the previous rate the profile's dirty and rate_dirty
\* flags are set.
C21_ReportRateClamped ==
    [][(bus'.name = "ReportRate" /\ op'.name = "profile_set_report_rate") =>
          LET p == bus'.p
              r == bus'.value
              lower == IF r > 125 THEN r ELSE 125
              clamped == IF lower < 8000 THEN lower ELSE 8000
          IN /\ bus'.rc >= 0
             /\ prof'[p].hz = clamped
             /\ "ReportRate" \in bus'.signals
             /\ clamped # prof[p].hz =>
                   prof'[p].dirty /\ prof'[p].rate_dirty]_vars

\* C21 happens: 0 was written to a profile, which now has rate 125 and is
\* dirty, and the other profile was given a value above 8000 and has 8000
C21_Witness ==
    /\ bus.name = "ReportRate" /\ bus.value = 0 /\ bus.rc = 0
    /\ prof[bus.p].hz = 125
    /\ prof[bus.p].dirty /\ prof[bus.p].rate_dirty
    /\ bus.signals = {"ReportRate", "IsDirty"}
    /\ \E q \in Profiles : q # bus.p /\ prof[q].hz = 8000

\* C22: the macro encoder and decoder round-trip: for every key that is
\* not a modifier key and every mask over the eight modifier bits, decoding
\* the macro built by ghostcat_button_macro_new_from_keycode(key, mask)
\* succeeds and returns exactly (key, mask).
C22_MacroRoundTrip ==
    (/\ keycode.called /\ macro.encoded # <<>>
     /\ macro.encoded[1] \notin ModifierKeys)
        => /\ keycode.rc = 1
           /\ <<keycode.key, keycode.modifiers>> = macro.encoded

\* C22 happens: key 30 with all eight modifiers was encoded into 18 events
\* and decoded
C22_Witness ==
    /\ keycode.called /\ macro.encoded = <<30, 255>>
    /\ Len(macro.events) = 18
    /\ keycode.key = 30 /\ keycode.modifiers = 255

\* C23: for each modifier key m, decoding the macro that is exactly the
\* one event KeyPressed(m) succeeds and returns key m with an empty mask.
C23_LoneModifierDecodes ==
    \A m \in ModifierKeys :
        (keycode.called /\ macro.set /\ macro.events = <<Event("pressed", m)>>)
            => keycode.rc = 1 /\ keycode.key = m /\ keycode.modifiers = 0

\* C23 happens: the macro KeyPressed(KEY_LEFTSHIFT), set event by event,
\* has been decoded
C23_Witness ==
    /\ keycode.called /\ macro.encoded = <<>>
    /\ macro.events = <<Event("pressed", 42)>>
    /\ keycode.key = 42

\* the macros C24 lets the decoder accept: exactly one press of a key that
\* is no modifier, with its release after it, or no such press and exactly
\* one press of a modifier
Decodable(ev) ==
    LET presses == {i \in DOMAIN ev : ev[i].type = "pressed"}
        keys == {i \in presses : ev[i].data \notin ModifierKeys}
    IN \/ /\ Cardinality(keys) = 1
          /\ \E i \in keys, j \in DOMAIN ev :
                j > i /\ ev[j] = Event("released", ev[i].data)
       \/ keys = {} /\ Cardinality(presses) = 1

\* C24: ghostcat_action_keycode_from_macro returns the Invalid error, a
\* negative value and never a non-error result, unless the macro holds
\* exactly one non-modifier key (a press followed by its matching release)
\* or is one modifier press.
C24_OtherMacrosRejected ==
    (keycode.called /\ ~Decodable(macro.events)) => keycode.rc = 0 - EINVAL

\* C25: wait events are ignored by the decoder: a macro with a wait event
\* of any timeout inserted at any position, the first included, decodes to
\* the same result code, key and modifier mask as the macro without it.
C25_WaitsIgnored ==
    keycode.called =>
        \A i \in 0 .. Len(macro.events), ms \in {29, 500} :
            ghostcat_action_keycode_from_macro(
                [macro EXCEPT !.events =
                    SubSeq(macro.events, 1, i) \o <<Event("wait", ms)>>
                    \o SubSeq(macro.events, i + 1, Len(macro.events))])
              = keycode

C27_HandlesPinAncestry ==
    /\ ~refs.aborted
    /\ \A e \in Entities : refs.count[e] >= 0 /\ refs.count[e] >= refs.held[e]
    /\ refs.count[TheDevice]
           >= SumOver(refs.count, {ProfileOf(p) : p \in Profiles})
    /\ \A p \in Profiles :
           refs.count[ProfileOf(p)] >= SumOver(refs.count, Children(p))
    /\ refs.destroyed <=> refs.count[TheDevice] = 0
    /\ refs.destroyed => \A e \in Entities : refs.held[e] = 0

\* the creator has dropped its device handle and a resolution handle alone
\* keeps the profile and the device alive
C27_Witness ==
    /\ refs.held[TheDevice] = 0
    /\ refs.held[<<"resolution", 1, 1>>] = 1
    /\ SumOver(refs.held, Entities) = 1
    /\ refs.count[TheDevice] = 1 /\ refs.count[ProfileOf(1)] = 1
    /\ ~refs.destroyed

\* the devices linked in the registry, and those with a given sysname
LinkedDevices(rg) == {d \in DevIds : rg.dev[d].linked}
LinkedAs(rg, name) == {d \in LinkedDevices(rg) : rg.dev[d].sysname = name}

\* C28: iterating the registry (first / next) visits every linked device
\* exactly once, in ascending sysname order whatever the order of the
\* links was, and lookup(name) returns the linked device of that sysname or
\* nothing.
C28_RegistryIteratesInSysnameOrder ==
    LET visited == GHOSTCATD_DEVICE_FOREACH(reg) IN
    /\ Len(visited) = Cardinality(LinkedDevices(reg))
    /\ {visited[i] : i \in DOMAIN visited} = LinkedDevices(reg)
    /\ \A i, j \in DOMAIN visited :
           i < j => strcmp(reg.dev[visited[i]].sysname,
                           reg.dev[visited[j]].sysname) < 0
    /\ \A name \in Sysnames :
           IF LinkedAs(reg, name) = {}
           THEN ghostcatd_device_lookup(reg, name) = NoDev
           ELSE ghostcatd_device_lookup(reg, name) \in LinkedAs(reg, name)

\* three devices are linked, the one created first comes last in the
\* iteration and the one created last is neither first nor last
C28_Witness ==
    LET visited == GHOSTCATD_DEVICE_FOREACH(reg) IN
    /\ Len(visited) = 3
    /\ visited[3] = 1 /\ visited[2] = 3
    /\ reg.root = 2
    /\ reg.dev[1].sysname = "hidraw2" /\ reg.dev[3].sysname = "hidraw10"

\* the registry but for the record of the last event
SameRegistry(a, b) == [a EXCEPT !.event = NoEvent] = [b EXCEPT !.event = NoEvent]

\* C29: a non-remove event for a sysname in the registry changes nothing;
\* one for an unknown sysname attaches a new device and emits the Devices
\* change signal iff the construction succeeds, and changes nothing and
\* emits nothing when it fails; a remove event detaches exactly the device
\* of that sysname and does nothing for an unknown sysname. No two devices
\* of the registry have the same sysname and no assertion of link fails.
C29_HotplugKeepsSysnamesUnique ==
    [][LET e == reg'.event
           known == LinkedAs(reg, e.sysname)
       IN e.action # "none" /\ e.sysname \in Sysnames =>
          /\ ~reg'.aborted
          /\ \A name \in Sysnames : Cardinality(LinkedAs(reg', name)) <= 1
          /\ e.action # "remove" /\ known # {} =>
                 SameRegistry(reg, reg') /\ e.signals = {}
          /\ e.action # "remove" /\ known = {} /\ e.construction = "ok" =>
                 /\ "Devices" \in e.signals
                 /\ \E d \in DevIds \ LinkedDevices(reg) :
                        /\ LinkedDevices(reg') = LinkedDevices(reg) \cup {d}
                        /\ reg'.dev[d].sysname = e.sysname
                        /\ \A o \in DevIds \ {d} : reg'.dev[o] = reg.dev[o]
          /\ e.action # "remove" /\ known = {} /\ e.construction # "ok" =>
                 SameRegistry(reg, reg') /\ e.signals = {}
          /\ e.action = "remove" /\ known # {} =>
                 /\ LinkedDevices(reg') = LinkedDevices(reg) \ known
                 /\ \A o \in DevIds \ known : reg'.dev[o] = reg.dev[o]
          /\ e.action = "remove" /\ known = {} =>
                 SameRegistry(reg, reg')]_vars

\* an event for a sysname that is attached already was ignored while two
\* devices are attached
C29_Witness ==
    /\ reg.event.action = "add" /\ reg.event.device # NoDev
    /\ reg.event.signals = {}
    /\ reg.n_devices = 2
    /\ ~reg.aborted

\* C30: a device that has been detached from the registry has no bus
\* object registered any more, also while a commit task keeps it alive.
C30_DetachedDeviceHasNoBusObjects ==
    \A d \in DevIds :
        reg.dev[d].refcount > 0 /\ ~reg.dev[d].linked =>
            reg.dev[d].slots = {}

\* the data-model invariants of a probed object graph
DataModelInvariants(g) ==
    /\ NumProfiles >= 1 /\ NumProfiles <= 16
    /\ Cardinality({p \in Profiles : g.pf[p].is_active}) = 1
    /\ NumResolutions <= 16
    /\ \A x \in DOMAIN g.rs : g.rs[x].dpis # {}
    /\ g.rates # {}
    /\ \A p \in Profiles :
          /\ Cardinality({r \in Resolutions : g.rs[<<p, r>>].is_default}) <= 1
          /\ Cardinality({r \in Resolutions :
                             g.rs[<<p, r>>].is_dpi_shift_target}) <= 1
          /\ g.pf[p].is_active =>
                 Cardinality({r \in Resolutions : g.rs[<<p, r>>].is_active}) = 1
    /\ \A x \in DOMAIN g.rs :
          g.rs[x].is_disabled => ~g.rs[x].is_active /\ ~g.rs[x].is_default

\* C31: a device is accepted after probe only if its object graph
\* satisfies the data-model invariants (1 to 16 profiles, one active
\* profile, at most 16 resolutions with DPI and report rate lists, at most
\* one default and one shift target per profile, one active resolution in
\* the active profile, no disabled resolution active or default).
C31_AcceptedDeviceIsValid ==
    probe.phase = "accepted" => DataModelInvariants(probe)

\* C32: a bus method that replies success has accepted the request:
\* SetActive replies 0 only if ghostcat_profile_set_active accepted it (the
\* profile is enabled), and Commit replies 0 only with its task enqueued.
C32_SuccessMeansAccepted ==
    [][/\ bus'.name = "SetActive" /\ bus'.value = 0 =>
              prof[bus'.p].is_enabled /\ ret' = GHOSTCAT_SUCCESS
       /\ bus'.name = "Commit" /\ bus'.value = 0 =>
              /\ Len(tasks') > 0
              /\ Len(replies') = Len(replies) + 1
              /\ tasks'[Len(tasks')] = Len(replies')]_vars

\* C33: once a macro is stored on a button, assigning it a button, a
\* special action or a key, or disabling it, leaves the stored macro
\* events as they are: they are still there when the button goes back to
\* the macro type.
C33_MacroSurvivesOtherActions ==
    [][\A x \in DOMAIN btn :
           btn[x].macro.alloc /\ op'.name # "button_set_macro" =>
               btn'[x].macro = btn[x].macro]_vars

\* a button that holds a key now and still has the macro stored before
C33_Witness ==
    /\ op.name = "button_set_key" /\ ret = GHOSTCAT_SUCCESS
    /\ btn[<<op.p, op.i>>].type = "key"
    /\ btn[<<op.p, op.i>>].macro.alloc
    /\ Len(btn[<<op.p, op.i>>].macro.events) = 2
\* the place of a marsgaming command in a profile's commit
WriteRank(w) ==
    CASE w[1] = "rate" -> 1
      [] w[1] = "resolutions" -> 2
      [] w[1] = "buttons" -> 3
      [] w[1] = "led" -> 4
      [] OTHER -> 5

\* C34: within one ghostcat_device_commit the active-profile write is
\* last: every command of the driver's commit callback (for marsgaming,
\* per dirty profile, rate, then resolutions, then buttons, then LEDs)
\* precedes every set_active_profile call, no set_active_profile call is
\* made when the driver's commit failed, and the call is made only for a
\* profile whose is_active_dirty bit was set.
C34_ActiveProfileWrittenLast ==
    [][hw'.committed =>
        LET w == hw'.writes
            sap == {i \in 1 .. Len(w) : w[i][1] = "set_active_profile"}
        IN
        /\ \A i \in sap, j \in 1 .. Len(w) : j \notin sap => j < i
        /\ \A i \in 1 .. Len(w), j \in 1 .. Len(w) :
              (i < j /\ i \notin sap /\ j \notin sap)
                  => /\ w[i][2] <= w[j][2]
                     /\ w[i][2] = w[j][2] => WriteRank(w[i]) <= WriteRank(w[j])
        /\ \A i \in 1 .. Len(w) : i \notin sap => prof[w[i][2]].dirty
        /\ hw'.commit_rc # 0 => sap = {}
        /\ \A i \in sap : prof[w[i][2]].is_active_dirty
        /\ drvCalls'[1] = <<"commit">>
        /\ SelectSeq(w, LAMBDA c : c[1] = "set_active_profile")
              = Tail(drvCalls')
    ]_vars

\* a marsgaming commit wrote a rate and an LED of a profile and then
\* switched the active profile
C34_Witness ==
    /\ hw.committed
    /\ driver = "marsgaming"
    /\ \E i, j, k \in 1 .. Len(hw.writes) :
          /\ i < j /\ j < k
          /\ hw.writes[i][1] = "rate"
          /\ hw.writes[j][1] = "led"
          /\ hw.writes[k][1] = "set_active_profile"

\* the devices the last handler polled
Polled == {timers.polled[i] : i \in DOMAIN timers.polled}

\* C35: the poll timer is a one-shot source re-armed only from its own
\* callback: after every tick exactly one next tick is scheduled
\* POLL_INTERVAL_USEC after the callback's current time, the number of
\* armed poll sources changes in no other handler and is never above
\* one, and under a fair reactor every attached device is polled again
\* and again.
C35_PollTimerRearmsItself ==
    /\ [][/\ timers'.tick => timers'.sources = <<POLL_INTERVAL_USEC>>
          /\ (timers.running /\ ~timers'.tick)
                => Len(timers'.sources) = Len(timers.sources)]_vars
    /\ [](Len(timers.sources) <= 1)
    /\ [](timers.running => Len(timers.sources) = 1)
    /\ \A n \in Sysnames :
          []<>(timers.running
                  => (LinkedAs(reg, n) = {} \/ LinkedAs(reg, n) \subseteq Polled))

\* a late tick polled two attached devices and re-armed the timer
C35_Witness ==
    /\ timers.tick
    /\ Len(timers.polled) = 2
    /\ timers.sources = <<POLL_INTERVAL_USEC>>

\* C36: every Commit call schedules exactly one deferred task with one
\* new device reference; every run of a task is one ghostcat_device_commit
\* for the oldest request and drops exactly one reference, so the
\* references beyond the pending tasks' stay what they were; no request
\* is committed twice, and under a fair reactor every request is
\* committed eventually.
C36_EveryTaskRunsOnce ==
    /\ [][/\ replies' # replies
                => /\ tasks' = Append(tasks, Len(replies'))
                   /\ refcount' = refcount + 1
                   /\ commits' = commits
          /\ tasks' # tasks /\ replies' = replies
                => /\ tasks' = Tail(tasks)
                   /\ Len(commits') = Len(commits) + 1
                   /\ commits'[Len(commits')].req = Head(tasks)
                   /\ refcount' = refcount - 1
          /\ commits' # commits => tasks' # tasks /\ replies' = replies
         ]_vars
    /\ [](\A i, j \in DOMAIN commits :
              i # j => commits[i].req # commits[j].req)
    /\ [](tasks = <<>> => /\ Len(commits) = Len(replies)
                          /\ refcount = IF linked THEN 1 ELSE 0)
    /\ \A k \in 1 .. MaxDeferred :
          (Len(replies) >= k) ~> (\E i \in DOMAIN commits : commits[i].req = k)

\* a task has run and released its reference while two more Commit calls
\* are queued for the device
C36_Witness ==
    /\ Len(commits) = 1
    /\ Len(tasks) = 2
    /\ refcount = 3

\* C37: the dirty flags are hierarchical in every reachable state:
\* whenever a resolution, button or LED is dirty, or a profile has
\* rate_dirty, angle_snapping_dirty, debounce_dirty or is_active_dirty
\* set, the owning profile's dirty flag is set, also after a commit that
\* returned an error.
C37_DirtyFlagsAreHierarchical ==
    /\ \A x \in DOMAIN res : res[x].dirty => prof[x[1]].dirty
    /\ \A x \in DOMAIN btn : btn[x].dirty => prof[x[1]].dirty
    /\ \A x \in DOMAIN led : led[x].dirty => prof[x[1]].dirty
    /\ \A p \in Profiles :
          (\/ prof[p].rate_dirty \/ prof[p].angle_snapping_dirty
           \/ prof[p].debounce_dirty \/ prof[p].is_active_dirty)
              => prof[p].dirty

\* C38: a daemon-level device is never freed while it is linked: under
\* any interleaving of hot-plug events, Commit calls, commit tasks and the
\* shutdown, a linked device has refcount >= 1, a device that is freed
\* (its refcount reaches 0) was not linked or is unlinked by the very
\* handler that drops its last reference (a remove event for it, or the
\* shutdown), and the assertion of ghostcatd_device_free never fails.
C38_LinkedDeviceIsNeverFreed ==
    /\ [](\A d \in DevIds : reg.dev[d].linked => reg.dev[d].refcount >= 1)
    /\ [](~reg.aborted)
    /\ [](\A i \in DOMAIN reg.tasks : reg.dev[reg.tasks[i]].refcount >= 1)
    /\ [][\A d \in DevIds :
            (reg.dev[d].refcount > 0 /\ reg'.dev[d].refcount = 0
                /\ reg.dev[d].linked)
              => \/ Stopped(reg')
                 \/ /\ reg'.event.action = "remove"
                    /\ reg'.event.device = d]_vars

\* the daemon has shut down while a commit task still held a device: the
\* device is unlinked and alive
C38_Witness ==
    /\ Stopped(reg)
    /\ reg.tasks # <<>>
    /\ \E d \in DevIds : reg.dev[d].refcount = 1 /\ ~reg.dev[d].linked
    /\ LinkedDevices(reg) = {}

\* C39: the driver's remove callback is invoked exactly once for every
\* device whose probe (or test_probe) succeeded, when the device is
\* destroyed, also for a device discarded because the sanity check after
\* the probe failed; it is never invoked for a device whose probe
\* returned an error, never before the destruction and never twice (the
\* assertion of test_remove holds).
C39_RemoveOncePerProbedDevice ==
    /\ probe.removes <= 1
    /\ ~probe.aborted
    /\ probe.phase = "destroyed"
          => probe.removes = (IF probe.probe_rc = 0 THEN 1 ELSE 0)
    /\ probe.phase # "destroyed" => probe.removes = 0

\* a test device whose probe succeeded was discarded by the sanity check
\* and its driver's remove has run
C39_Witness ==
    /\ probe.phase = "destroyed"
    /\ probe.driver = "test_driver"
    /\ probe.probe_rc = 0
    /\ ~ghostcat_sanity_check_device(probe.pf, probe.rs)
    /\ probe.removes = 1

====
